---------------------------- MODULE Spec2Model ----------------------------
(***************************************************************************)
(* UIForge: the EQUI document parser, the Pieces reference resolver, the   *)
(* XML serializer, the project store's file loading and the texture        *)
(* manager, as state machines over an explicit object heap.                *)
(*                                                                         *)
(* An XML element is a record [tag, item, text, kids]: item is the "item"  *)
(* attribute ("" when absent), text the character data of a leaf, kids the *)
(* child elements in document order.  JavaScript objects live in `heap`, a *)
(* sequence of cells addressed by their index, so that two references to   *)
(* one object are two equal addresses.  undefined is "" for strings, 0 for *)
(* an object reference and NoId for a parent id.                           *)
(***************************************************************************)
EXTENDS Integers, Sequences, FiniteSets, TLC

VARIABLES
  pc,         \* the position of the scenario being run
  input,      \* the inputs of the scenario (documents, file lists, bytes)
  heap,       \* the JavaScript object heap: Seq of cells
  idCounter,  \* ScreenPiece.ts: let idCounter = 0
  files,      \* the ParsedEquiFile results, in the order they were produced
  out,        \* the serializer's output, as the element tree its text denotes
  project,    \* projectStore: project.value.files
  tex,        \* TextureManager: textures, loading and the callers' positions
  prev        \* history: the heap before the last resolution or mutation

vars == <<pc, input, heap, idCounter, files, out, project, tex, prev>>

(***************************************************************************)
(* Bounds of the model.                                                    *)
(***************************************************************************)
MaxNum == 255
MaxProps == 1      \* non-default properties per generated element
MaxIncludes == 2   \* Include entries of a generated manifest
MaxRefs == 2       \* names of a generated Pieces reference list
MaxCalls == 2      \* loadFile / loadFiles calls of one run
MaxCallers == 2    \* loadFromFile calls of one run
MaxLoads == 3      \* loadFromFile calls racing for one texture name
MaxDim == 1        \* width and height of a generated image
MaxWidth == 2      \* width of an image given to the decoder alone
MaxHeight == 3     \* height of an image given to the decoder alone
MaxPackets == 2    \* packets in a generated RLE stream
MaxAccum == 6      \* properties kept of a list that grows without end

(***************************************************************************)
(* Values.                                                                 *)
(***************************************************************************)
NoId == -1
NaN == -100000
Null == -100001

NumRange == (0 - 9) .. MaxNum
NumText == [n \in NumRange |-> ToString(n)]

\* parseInt(text, 10) on the texts the inputs use: a numeral is its number, a
\* numeral followed by letters its numeric prefix, anything else NaN.
parseInt(s) ==
  IF \E n \in NumRange : NumText[n] = s
    THEN CHOOSE n \in NumRange : NumText[n] = s
    ELSE IF s = "7px" THEN 7 ELSE NaN

\* `${value}` of a number.
numberToString(n) ==
  IF n = NaN THEN "NaN" ELSE IF n = Null THEN "null" ELSE ToString(n)

\* String.prototype.trim on the texts the inputs use.
trim(s) == IF s \in {" ", "  "} THEN "" ELSE s

\* String.prototype.toLowerCase on the texts the inputs use.
toLowerCase(s) ==
  IF s \in {"TRUE", "True"} THEN "true"
  ELSE IF s \in {"FALSE", "False"} THEN "false"
  ELSE IF s \in {"EQUI.xml", "Equi.xml"} THEN "equi.xml" ELSE s

RECURSIVE concat(_)
concat(ss) == IF ss = <<>> THEN "" ELSE Head(ss) \o concat(Tail(ss))

(***************************************************************************)
(* The DOM the parser reads.                                               *)
(***************************************************************************)
Leaf(tag, text) == [tag |-> tag, item |-> "", text |-> text, kids |-> <<>>]
El(tag, item, kids) == [tag |-> tag, item |-> item, text |-> "", kids |-> kids]

\* Node.textContent: the character data of the element and its descendants.
RECURSIVE textContent(_)
textContent(e) ==
  IF e.kids = <<>> THEN e.text
  ELSE concat([i \in 1 .. Len(e.kids) |-> textContent(e.kids[i])])

\* querySelectorAll(':scope > name')
scopeChildren(parent, name) == SelectSeq(parent.kids, LAMBDA k : k.tag = name)

\* querySelector(name): is there a descendant with that tag
RECURSIVE hasDescendant(_, _)
hasDescendant(e, name) ==
  \E i \in 1 .. Len(e.kids) :
    e.kids[i].tag = name \/ hasDescendant(e.kids[i], name)

\* The descendants with that tag, in document order.
RECURSIVE descendants(_, _)
descendants(e, name) ==
  IF e.kids = <<>> THEN <<>>
  ELSE LET sub[i \in 0 .. Len(e.kids)] ==
             IF i = 0 THEN <<>>
             ELSE sub[i - 1]
                  \o (IF e.kids[i].tag = name THEN <<e.kids[i]>> ELSE <<>>)
                  \o descendants(e.kids[i], name)
       IN sub[Len(e.kids)]

\* undefined is "": the code turns an empty text into undefined.
firstText(c) == IF c = <<>> THEN "" ELSE trim(textContent(c[1]))
getChildText(parent, childName) == firstText(scopeChildren(parent, childName))

\* text || dflt
orElse(text, dflt) == IF text = "" THEN dflt ELSE text

\* parseInt(getChildText(node, name) || dflt, 10)
parseIntOr(node, name, dflt) == parseInt(orElse(getChildText(node, name), dflt))

pointOf(c) ==
  IF c = <<>> THEN [kind |-> "point", x |-> 0, y |-> 0]
  ELSE [kind |-> "point", x |-> parseIntOr(c[1], "X", "0"),
        y |-> parseIntOr(c[1], "Y", "0")]
parsePoint(parent, containerName) == pointOf(scopeChildren(parent, containerName))

sizeOf(c) ==
  IF c = <<>> THEN [kind |-> "size", cx |-> 0, cy |-> 0]
  ELSE [kind |-> "size", cx |-> parseIntOr(c[1], "CX", "0"),
        cy |-> parseIntOr(c[1], "CY", "0")]
parseSize(parent, containerName) == sizeOf(scopeChildren(parent, containerName))

\* <<>> is undefined, otherwise <<alpha, r, g, b>>.
rgbOf(c) ==
  IF c = <<>> THEN <<>>
  ELSE <<parseIntOr(c[1], "A", "255"), parseIntOr(c[1], "R", "255"),
         parseIntOr(c[1], "G", "255"), parseIntOr(c[1], "B", "255")>>
parseRGB(parent, containerName) == rgbOf(scopeChildren(parent, containerName))

booleanOf(text, defaultValue) ==
  IF text = "" THEN defaultValue ELSE toLowerCase(text) = "true" \/ text = "1"
parseBoolean(parent, childName, defaultValue) ==
  booleanOf(getChildText(parent, childName), defaultValue)

parseStyleFlags(node) ==
  [kind |-> "style",
   transparent |-> parseBoolean(node, "Style_Transparent", FALSE),
   border |-> parseBoolean(node, "Style_Border", FALSE),
   titlebar |-> parseBoolean(node, "Style_Titlebar", FALSE),
   closebox |-> parseBoolean(node, "Style_Closebox", FALSE),
   minimizebox |-> parseBoolean(node, "Style_Minimizebox", FALSE),
   tilebox |-> parseBoolean(node, "Style_Tilebox", FALSE),
   sizable |-> parseBoolean(node, "Style_Sizable", FALSE),
   escapeClose |-> parseBoolean(node, "Style_EscapeClose", FALSE),
   vScroll |-> parseBoolean(node, "Style_VScroll", FALSE),
   hScroll |-> parseBoolean(node, "Style_HScroll", FALSE)]

\* The texts of the direct Pieces children, empty ones left out.
trimmedTexts(es) ==
  SelectSeq([i \in 1 .. Len(es) |-> trim(textContent(es[i]))], LAMBDA n : n # "")
piecesRefs(node) == trimmedTexts(scopeChildren(node, "Pieces"))

templateTags ==
  {"TextureInfo", "Ui2DAnimation", "FrameTemplate", "ButtonDrawTemplate",
   "GaugeDrawTemplate", "WindowDrawTemplate", "SliderDrawTemplate",
   "SpellGemDrawTemplate", "ScrollbarDrawTemplate"}

visualElementTags ==
  {"Screen", "Button", "Gauge", "Label", "Editbox", "Listbox", "Combobox",
   "Slider", "Page", "TabBox", "InvSlot", "SpellGem", "HotButton",
   "StaticAnimation", "StaticText", "StaticFrame", "StaticGroup",
   "StaticScreen", "LayoutBox", "VerticalLayoutBox", "HorizontalLayoutBox",
   "TemplateAssoc", "STMLbox", "Browser", "TreeView", "TileLayoutBox",
   "Grid", "RadioGroup", "Holder", "Header", "Layout", "Choices"}

knownNonPieces ==
  {"ScreenID", "Location", "Size", "RelativePosition", "AutoStretch",
   "TopAnchorToTop", "BottomAnchorToTop", "LeftAnchorToLeft",
   "RightAnchorToLeft", "TopOffset", "BottomOffset", "LeftOffset",
   "RightOffset", "TextColor", "Font", "Text", "TooltipReference",
   "DrawTemplate", "WindowDrawTemplate", "Style_Titlebar", "Style_Closebox",
   "Style_Minimizebox", "Style_Border", "Style_Sizable", "Style_Transparent",
   "Style_VScroll", "Style_HScroll", "Style_EscapeClose", "Style_Checkbox",
   "Style_Tilebox", "Pieces", "EQType", "GaugeDrawTemplate",
   "ButtonDrawTemplate", "TextureInfo", "Ui2DAnimation", "FrameTemplate",
   "Composite", "Include",
   "Spacing", "SecondarySpacing", "HorizontalFirst", "AnchorToTop",
   "AnchorToLeft", "FirstPieceTemplate", "SnapToChildren",
   "AutoStretchHorizontal", "AutoStretchVertical",
   "Animation", "InvSlot", "BagSlot", "SpellSlot", "ButtonIndex", "TabText",
   "MaxChars", "Password", "Multiline", "AutoVScroll", "NoWrap",
   "AlignCenter", "AlignRight",
   "Rows", "Cols", "CellWidth", "CellHeight",
   "HeaderStyle", "Sort", "HighlightColor", "Columns",
   "TabHeight", "TabStyle",
   "MaxLines",
   "Choices", "SelectedIndex",
   "MinValue", "MaxValue", "CurrentValue", "PageSize", "SliderDrawTemplate",
   "Orientation",
   "SpellGemDrawTemplate",
   "Template", "Frame", "Duration", "Hotspot", "Texture", "Cycle",
   "Item", "Border", "Background", "Fill", "FillTint", "LinesFillTint",
   "TooltipText", "ClickThrough", "Enabled", "Visible", "Alpha"}

(***************************************************************************)
(* Maps (JavaScript Map with string keys) as functions.                    *)
(***************************************************************************)
EmptyMap == [k \in {} |-> 0]
MapSet(m, k, v) == [x \in (DOMAIN m) \cup {k} |-> IF x = k THEN v ELSE m[x]]

(***************************************************************************)
(* parseControlSpecificProps: the type-specific extras of a piece, a       *)
(* function from property name to value.                                   *)
(***************************************************************************)
eqTypeOf(t, n) ==
  IF t = "" THEN EmptyMap
  ELSE IF n # NaN /\ numberToString(n) = t
    THEN "eqType" :> [isNum |-> TRUE, n |-> n, s |-> ""]
    ELSE "eqType" :> [isNum |-> FALSE, n |-> 0, s |-> t]
eqTypeExtra(node) ==
  eqTypeOf(getChildText(node, "EQType"), parseInt(getChildText(node, "EQType")))

choicesExtra(cs) == IF cs = <<>> THEN EmptyMap ELSE "choices" :> cs
choicesOf(node) == trimmedTexts(scopeChildren(node, "Choices"))

typeExtras(node) ==
  LET txt(n) == getChildText(node, n)
      int(n, d) == parseIntOr(node, n, d)
      bool(n) == parseBoolean(node, n, FALSE)
      t == node.tag
  IN CASE t = "Gauge" ->
            ("gaugeDrawTemplate" :> txt("GaugeDrawTemplate"))
            @@ ("fillTint" :> parseRGB(node, "FillTint"))
            @@ ("linesFillTint" :> parseRGB(node, "LinesFillTint"))
            @@ ("orientation" :> orElse(txt("Orientation"), "horizontal"))
       [] t = "Button" ->
            ("buttonDrawTemplate" :> txt("ButtonDrawTemplate"))
            @@ ("normalTexture" :> txt("NormalTexture"))
            @@ ("pressedTexture" :> txt("PressedTexture"))
            @@ ("flybyTexture" :> txt("FlybyTexture"))
            @@ ("disabledTexture" :> txt("DisabledTexture"))
            @@ ("isCheckbox" :> bool("Checkbox"))
            @@ ("checked" :> bool("Checked"))
            @@ ("radioGroup" :> int("RadioGroup", "0"))
       [] t = "Label" ->
            ("noWrap" :> bool("NoWrap"))
            @@ ("alignCenter" :> bool("AlignCenter"))
            @@ ("alignRight" :> bool("AlignRight"))
       [] t = "Editbox" ->
            ("maxChars" :> int("MaxChars", "0"))
            @@ ("password" :> bool("Password"))
            @@ ("multiline" :> bool("Multiline"))
            @@ ("autoVScroll" :> bool("AutoVScroll"))
       [] t = "InvSlot" ->
            ("invSlot" :> int("InvSlot", "0")) @@ ("bagSlot" :> int("BagSlot", "0"))
       [] t = "SpellGem" ->
            ("spellSlot" :> int("SpellSlot", "0"))
            @@ ("spellGemDrawTemplate" :> txt("SpellGemDrawTemplate"))
       [] t = "HotButton" -> ("buttonIndex" :> int("ButtonIndex", "0"))
       [] t = "StaticAnimation" -> ("animation" :> txt("Animation"))
       [] t = "TileLayoutBox" ->
            ("spacing" :> int("Spacing", "0"))
            @@ ("secondarySpacing" :> int("SecondarySpacing", "0"))
            @@ ("horizontalFirst" :> bool("HorizontalFirst"))
            @@ ("anchorToTop" :> bool("AnchorToTop"))
            @@ ("anchorToLeft" :> bool("AnchorToLeft"))
            @@ ("firstPieceTemplate" :> bool("FirstPieceTemplate"))
            @@ ("snapToChildren" :> bool("SnapToChildren"))
       [] t \in {"LayoutBox", "VerticalLayoutBox", "HorizontalLayoutBox"} ->
            ("spacing" :> int("Spacing", "0"))
            @@ ("autoStretchHorizontal" :> bool("AutoStretchHorizontal"))
            @@ ("autoStretchVertical" :> bool("AutoStretchVertical"))
       [] t = "Page" -> ("tabText" :> txt("TabText"))
       [] t = "Slider" ->
            ("sliderDrawTemplate" :> txt("SliderDrawTemplate"))
            @@ ("orientation" :> orElse(txt("Orientation"), "horizontal"))
            @@ ("minValue" :> int("MinValue", "0"))
            @@ ("maxValue" :> int("MaxValue", "100"))
            @@ ("currentValue" :> int("CurrentValue", "0"))
            @@ ("pageSize" :> int("PageSize", "10"))
       [] t = "StaticFrame" -> ("frameTemplate" :> txt("FrameTemplate"))
       [] t = "Grid" ->
            ("rows" :> int("Rows", "1")) @@ ("cols" :> int("Cols", "1"))
            @@ ("cellWidth" :> int("CellWidth", "0"))
            @@ ("cellHeight" :> int("CellHeight", "0"))
       [] t = "Listbox" ->
            ("headerStyle" :> bool("HeaderStyle")) @@ ("sort" :> bool("Sort"))
            @@ ("highlightColor" :> parseRGB(node, "HighlightColor"))
       [] t = "TabBox" -> ("tabHeight" :> int("TabHeight", "20"))
       [] t = "STMLbox" -> ("maxLines" :> int("MaxLines", "0"))
       [] t = "Combobox" -> choicesExtra(choicesOf(node))
       [] OTHER -> EmptyMap

parseControlSpecificProps(node) == eqTypeExtra(node) @@ typeExtras(node)

(***************************************************************************)
(* Heap cells.  A piece cell holds the scalar fields of a ScreenPiece and  *)
(* the addresses of its location, size, style, textColor and children      *)
(* objects.                                                                *)
(***************************************************************************)
rgbCell(c) == [kind |-> "rgb", alpha |-> c[1], r |-> c[2], g |-> c[3], b |-> c[4]]
arrayCell(elems) == [kind |-> "array", elems |-> elems]

\* The object literal of parseScreen and parseScreenPiece, built at address a
\* with its sub-objects at the addresses after it.
pieceLiteral(node, type, screenId, id, a) ==
  [kind |-> "piece",
   id |-> id,
   type |-> type,
   screenId |-> screenId,
   item |-> node.item,
   location |-> a + 1,
   size |-> a + 2,
   relativePosition |-> parseBoolean(node, "RelativePosition", FALSE),
   autoStretch |-> parseBoolean(node, "AutoStretch", FALSE),
   topAnchorToTop |-> parseBoolean(node, "TopAnchorToTop", TRUE),
   bottomAnchorToTop |-> parseBoolean(node, "BottomAnchorToTop", FALSE),
   leftAnchorToLeft |-> parseBoolean(node, "LeftAnchorToLeft", TRUE),
   rightAnchorToLeft |-> parseBoolean(node, "RightAnchorToLeft", FALSE),
   topAnchorOffset |-> parseIntOr(node, "TopOffset", "0"),
   bottomAnchorOffset |-> parseIntOr(node, "BottomOffset", "0"),
   leftAnchorOffset |-> parseIntOr(node, "LeftOffset", "0"),
   rightAnchorOffset |-> parseIntOr(node, "RightOffset", "0"),
   textColor |-> IF scopeChildren(node, "TextColor") = <<>> THEN 0 ELSE a + 5,
   font |-> parseIntOr(node, "Font", "0"),
   text |-> getChildText(node, "Text"),
   tooltip |-> getChildText(node, "TooltipReference"),
   style |-> a + 3,
   drawTemplate |-> getChildText(node, "DrawTemplate"),
   windowDrawTemplate |-> "",
   children |-> a + 4,
   parentId |-> NoId,
   extras |-> EmptyMap]

rgbCells(c) == IF c = <<>> THEN <<>> ELSE <<rgbCell(c)>>
subObjects(node) ==
  <<parsePoint(node, "Location"), parseSize(node, "Size"),
    parseStyleFlags(node), arrayCell(<<>>)>>
  \o rgbCells(parseRGB(node, "TextColor"))

\* The parser's state while it reads one document: the heap and the id
\* counter it shares with everything else, the result's itemRegistry (name ->
\* address) and unresolvedPieces (an insertion-ordered list of [id, names]),
\* and ref, the address the last call returned (0: null).
registerItem(S, piece, a) ==
  IF piece.item # "" THEN MapSet(S.reg, piece.item, a) ELSE S.reg

recordPieces(S, refs, id) ==
  IF refs # <<>> THEN Append(S.pend, [id |-> id, names |-> refs]) ELSE S.pend

\* The new piece and its sub-objects enter the heap; the piece is registered
\* under its item name and its Pieces references are recorded.
addPiece(S, node, piece) ==
  [S EXCEPT !.heap = S.heap \o <<piece>> \o subObjects(node),
            !.idc = S.idc + 1,
            !.reg = registerItem(S, piece, Len(S.heap) + 1),
            !.pend = recordPieces(S, piecesRefs(node), piece.id)]

\* childPiece.parentId = parent.id; parent.children.push(childPiece)
attachChild(h, parent, child) ==
  [h EXCEPT ![child].parentId = h[parent].id,
            ![h[parent].children].elems = Append(@, child)]

attachIfPiece(parent, r) ==
  IF r.ref = 0 THEN r ELSE [r EXCEPT !.heap = attachChild(r.heap, parent, r.ref)]

returning(S, a) == [S EXCEPT !.ref = a]

newPiece(node, id, a) ==
  [pieceLiteral(node, node.tag, orElse(getChildText(node, "ScreenID"), node.tag),
                id, a)
     EXCEPT !.extras = parseControlSpecificProps(node)]

newScreen(node, id, a) ==
  [pieceLiteral(node, "Screen", getChildText(node, "ScreenID"), id, a)
     EXCEPT !.windowDrawTemplate = getChildText(node, "WindowDrawTemplate")]

RECURSIVE parseScreenPiece(_, _)
RECURSIVE parseChildren(_, _, _, _)

parseScreenPiece(node, S) ==
  IF node.tag \in knownNonPieces THEN returning(S, 0)
  ELSE returning(
         parseChildren(node.kids, 1, Len(S.heap) + 1,
           addPiece(S, node, newPiece(node, S.idc, Len(S.heap) + 1))),
         Len(S.heap) + 1)

parseChildren(kids, i, parent, S) ==
  IF i > Len(kids) THEN S
  ELSE parseChildren(kids, i + 1, parent,
         attachIfPiece(parent, parseScreenPiece(kids[i], S)))

parseScreen(node, S) ==
  IF getChildText(node, "ScreenID") = "" THEN returning(S, 0)
  ELSE returning(
         parseChildren(node.kids, 1, Len(S.heap) + 1,
           addPiece(S, node, newScreen(node, S.idc, Len(S.heap) + 1))),
         Len(S.heap) + 1)

(***************************************************************************)
(* Template records.                                                       *)
(***************************************************************************)
parseTextureInfo(node) ==
  [item |-> node.item,
   filename |-> orElse(getChildText(node, "Filename"), node.item),
   size |-> parseSize(node, "Size")]

parseFrame(node) ==
  [texture |-> getChildText(node, "Texture"),
   location |-> parsePoint(node, "Location"),
   size |-> parseSize(node, "Size"),
   hotspot |-> parsePoint(node, "Hotspot"),
   duration |-> parseIntOr(node, "Duration", "0")]

parseFrames(fs) == [k \in 1 .. Len(fs) |-> parseFrame(fs[k])]

parseUi2DAnimation(node) ==
  [item |-> node.item,
   cycle |-> parseBoolean(node, "Cycle", FALSE),
   grid |-> parseBoolean(node, "Grid", FALSE),
   rows |-> parseIntOr(node, "Rows", "1"),
   cols |-> parseIntOr(node, "Cols", "1"),
   cellWidth |-> parseIntOr(node, "CellWidth", "0"),
   cellHeight |-> parseIntOr(node, "CellHeight", "0"),
   frames |-> parseFrames(descendants(node, "Frame"))]

parseFrameTemplate(node) ==
  [item |-> node.item,
   parts |-> [n \in {"TopLeft", "Top", "TopRight", "LeftTop", "Left",
                     "LeftBottom", "BottomLeft", "Bottom", "BottomRight",
                     "RightTop", "Right", "RightBottom", "Middle"}
              |-> getChildText(node, n)]]

parseButtonDrawTemplate(node) ==
  [item |-> node.item,
   parts |-> [n \in {"Normal", "Pressed", "Flyby", "Disabled", "PressedFlyby",
                     "NormalDecal", "PressedDecal", "FlybyDecal",
                     "DisabledDecal"}
              |-> getChildText(node, n)]]

parseGaugeDrawTemplate(node) ==
  [item |-> node.item,
   parts |-> [n \in {"Background", "Fill", "Lines", "LinesFill", "EndCapLeft",
                     "EndCapRight"}
              |-> getChildText(node, n)]]

parseWindowDrawTemplate(node) ==
  [item |-> node.item,
   titlebarHeight |-> parseIntOr(node, "TitlebarHeight", "0"),
   parts |-> [n \in {"Background", "Titlebar", "CloseButton", "MinimizeButton",
                     "TileButton", "Border", "VerticalScrollbar",
                     "HorizontalScrollbar"}
              |-> getChildText(node, n)]]

\* createTemplateLibrary(): the maps of a document's library.
createTemplateLibrary ==
  [textures |-> EmptyMap, animations |-> EmptyMap, frameTemplates |-> EmptyMap,
   buttonTemplates |-> EmptyMap, gaugeTemplates |-> EmptyMap,
   sliderTemplates |-> EmptyMap, scrollbarTemplates |-> EmptyMap,
   windowTemplates |-> EmptyMap]

\* The switch of parseTopLevelElement over the template tags: a record
\* without an item attribute is dropped, a tag without a case does nothing.
parseTemplateElement(node, lib) ==
  IF node.item = "" THEN lib
  ELSE CASE node.tag = "TextureInfo" ->
              [lib EXCEPT !.textures = MapSet(@, node.item, parseTextureInfo(node))]
         [] node.tag = "Ui2DAnimation" ->
              [lib EXCEPT !.animations =
                            MapSet(@, node.item, parseUi2DAnimation(node))]
         [] node.tag = "FrameTemplate" ->
              [lib EXCEPT !.frameTemplates =
                            MapSet(@, node.item, parseFrameTemplate(node))]
         [] node.tag = "ButtonDrawTemplate" ->
              [lib EXCEPT !.buttonTemplates =
                            MapSet(@, node.item, parseButtonDrawTemplate(node))]
         [] node.tag = "GaugeDrawTemplate" ->
              [lib EXCEPT !.gaugeTemplates =
                            MapSet(@, node.item, parseGaugeDrawTemplate(node))]
         [] node.tag = "WindowDrawTemplate" ->
              [lib EXCEPT !.windowTemplates =
                            MapSet(@, node.item, parseWindowDrawTemplate(node))]
         [] OTHER -> lib

\* The Screen-like wrapper of a top-level piece: a new object with the
\* piece's id and the piece's own location, size, style, textColor and
\* children objects; extras, parentId and windowDrawTemplate are not copied.
wrapperOf(piece) ==
  [piece EXCEPT !.extras = EmptyMap, !.parentId = NoId,
                !.windowDrawTemplate = ""]

pushScreen(r) == IF r.ref = 0 THEN r ELSE [r EXCEPT !.screens = Append(@, r.ref)]

pushWrapper(r) ==
  IF r.ref = 0 THEN r
  ELSE [r EXCEPT !.heap = Append(@, wrapperOf(r.heap[r.ref])),
                 !.screens = Append(@, Len(r.heap) + 1)]

\* S is the parser's state with the result's screens and templates added.
parseTopLevelElement(node, S) ==
  IF node.tag \in templateTags
    THEN [S EXCEPT !.templates = parseTemplateElement(node, S.templates)]
  ELSE IF node.tag = "Screen" THEN pushScreen(parseScreen(node, S))
  ELSE IF node.tag \in visualElementTags \/ hasDescendant(node, "ScreenID")
    THEN pushWrapper(parseScreenPiece(node, S))
  ELSE S

\* A document handed to the parser: malformed says that DOMParser reports a
\* parse error, root is the document element, throwAt the top-level children
\* at which parseTopLevelElement raises an exception.
hasParserError(doc) ==
  doc.malformed \/ doc.root.tag = "parsererror"
  \/ hasDescendant(doc.root, "parsererror")

\* The Include texts of the first Composite of the document, empty ones out.
includesInUnfiltered(cs) ==
  IF cs = <<>> THEN <<>>
  ELSE [k \in 1 .. Len(descendants(cs[1], "Include")) |->
          trim(textContent(descendants(cs[1], "Include")[k]))]

includesIn(cs) ==
  IF cs = <<>> THEN <<>> ELSE trimmedTexts(descendants(cs[1], "Include"))
includesOf(root) == includesIn(descendants(root, "Composite"))

RECURSIVE parseTopLevelElements(_, _, _)
parseTopLevelElements(doc, i, S) ==
  IF i > Len(doc.root.kids) THEN S
  ELSE IF i \in doc.throwAt
    THEN parseTopLevelElements(doc, i + 1,
           [S EXCEPT !.errors = Append(@, [message |-> "Error parsing",
                                           element |-> doc.root.kids[i].tag])])
    ELSE parseTopLevelElements(doc, i + 1,
           parseTopLevelElement(doc.root.kids[i], S))

emptyResult(h, idc) ==
  [heap |-> h, idc |-> idc, reg |-> EmptyMap, pend |-> <<>>, ref |-> 0,
   screens |-> <<>>, templates |-> createTemplateLibrary, errors |-> <<>>,
   includes |-> <<>>]

\* parseEquiFile(xmlContent, filename): the state after the call; includes
\* <<>> is the absent includes field.
withIncludes(doc, S, incs) ==
  IF incs # <<>> THEN [S EXCEPT !.includes = incs]
  ELSE parseTopLevelElements(doc, 1, S)

\* parseEquiFile without the parsererror test.
parseEquiFileUnchecked(doc, h, idc) ==
  withIncludes(doc, emptyResult(h, idc), includesOf(doc.root))

parseEquiFile(doc, h, idc) ==
  IF hasParserError(doc)
    THEN [emptyResult(h, idc) EXCEPT !.errors = <<[message |-> "XML parse error",
                                                   element |-> ""]>>]
    ELSE withIncludes(doc, emptyResult(h, idc), includesOf(doc.root))

\* The ParsedEquiFile the caller receives.
parsedFile(filename, S) ==
  [filename |-> filename, screens |-> S.screens, templates |-> S.templates,
   errors |-> S.errors, includes |-> S.includes, itemRegistry |-> S.reg,
   unresolvedPieces |-> S.pend]

isManifestFile(parsed) == parsed.includes # <<>> /\ Len(parsed.includes) > 0

(***************************************************************************)
(* resolvePiecesReferences.                                                *)
(***************************************************************************)
\* globalRegistry after the files from position i on have been merged into
\* g: a name set again replaces the piece set before.
RECURSIVE mergeRegistries(_, _, _)
mergeRegistriesFirstWins(fs, i, g) ==
  IF i > Len(fs) THEN g ELSE mergeRegistries(fs, i + 1, g @@ fs[i].itemRegistry)

mergeRegistries(fs, i, g) ==
  IF i > Len(fs) THEN g ELSE mergeRegistries(fs, i + 1, fs[i].itemRegistry @@ g)

\* The pieces collectPieces visits, in the order it visits them.
RECURSIVE collectPieces(_, _)
collectPieces(h, screens) ==
  IF screens = <<>> THEN <<>>
  ELSE <<Head(screens)>> \o collectPieces(h, h[h[Head(screens)].children].elems)
       \o collectPieces(h, Tail(screens))

RECURSIVE screensOf(_)
screensOf(fs) == IF fs = <<>> THEN <<>> ELSE Head(fs).screens \o screensOf(Tail(fs))

\* allPiecesById.get(id): the piece set last under the id, 0 for undefined.
lastWithId(h, all, ks) == IF ks = {} THEN 0 ELSE all[CHOOSE k \in ks : \A j \in ks : j <= k]
allPiecesById(h, all, id) ==
  lastWithId(h, all, {k \in 1 .. Len(all) : h[all[k]].id = id})

\* JSON.stringify writes NaN as null.
jsonNumber(n) == IF n = NaN THEN Null ELSE n

jsonCell(c) ==
  IF c.kind = "point" THEN [c EXCEPT !.x = jsonNumber(@), !.y = jsonNumber(@)]
  ELSE IF c.kind = "size" THEN [c EXCEPT !.cx = jsonNumber(@), !.cy = jsonNumber(@)]
  ELSE IF c.kind = "rgb"
    THEN [c EXCEPT !.alpha = jsonNumber(@), !.r = jsonNumber(@),
                   !.g = jsonNumber(@), !.b = jsonNumber(@)]
  ELSE c

\* The extras that hold numbers and colours.
IntExtras ==
  {"radioGroup", "maxChars", "invSlot", "bagSlot", "spellSlot", "buttonIndex",
   "spacing", "secondarySpacing", "minValue", "maxValue", "currentValue",
   "pageSize", "rows", "cols", "cellWidth", "cellHeight", "tabHeight",
   "maxLines"}
RgbExtras == {"fillTint", "linesFillTint", "highlightColor"}

jsonExtra(k, v) ==
  IF k \in IntExtras THEN jsonNumber(v)
  ELSE IF k \in RgbExtras THEN [i \in DOMAIN v |-> jsonNumber(v[i])]
  ELSE v

jsonExtras(x) == [k \in DOMAIN x |-> jsonExtra(k, x[k])]

\* The number of cells of the copy of the tree at a.
cloneOwn(h, a) == IF h[a].textColor # 0 THEN 6 ELSE 5

RECURSIVE cloneSize(_, _)
RECURSIVE cloneSizes(_, _, _)
cloneSize(h, a) == cloneOwn(h, a) + cloneSizes(h, h[h[a].children].elems, 1)
cloneSizes(h, kids, k) ==
  IF k > Len(kids) THEN 0 ELSE cloneSize(h, kids[k]) + cloneSizes(h, kids, k + 1)

\* The address of the copy of kids[k] when the copies start after base.
kidAddress(h, kids, k, base) ==
  base + 1 + cloneSizes(h, SubSeq(kids, 1, k - 1), 1)

copiedPiece(p, base) ==
  [p EXCEPT !.location = base + 2, !.size = base + 3, !.style = base + 4,
            !.children = base + 5,
            !.textColor = IF @ = 0 THEN 0 ELSE base + 6,
            !.font = jsonNumber(@),
            !.topAnchorOffset = jsonNumber(@),
            !.bottomAnchorOffset = jsonNumber(@),
            !.leftAnchorOffset = jsonNumber(@),
            !.rightAnchorOffset = jsonNumber(@),
            !.extras = jsonExtras(@)]

copiedChildren(h, kids, base) ==
  arrayCell([k \in 1 .. Len(kids) |-> kidAddress(h, kids, k, base)])

\* { ...child }: a new object whose location, size, style, textColor and
\* children are the child's own.
RECURSIVE jsonClone(_, _, _)
RECURSIVE jsonCloneAll(_, _, _, _)
spreadClone(h, a, base) == <<h[a]>>

\* JSON.parse(JSON.stringify(child)): the cells of the copy, the copy of the
\* piece at base + 1, then its sub-objects, then the copies of its children.
jsonClone(h, a, base) ==
  <<copiedPiece(h[a], base), jsonCell(h[h[a].location]), jsonCell(h[h[a].size]),
    h[h[a].style],
    copiedChildren(h, h[h[a].children].elems, base + cloneOwn(h, a))>>
  \o (IF h[a].textColor # 0 THEN <<jsonCell(h[h[a].textColor])>> ELSE <<>>)
  \o jsonCloneAll(h, h[h[a].children].elems, 1, base + cloneOwn(h, a))

jsonCloneAll(h, kids, k, base) ==
  IF k > Len(kids) THEN <<>>
  ELSE jsonClone(h, kids[k], base)
       \o jsonCloneAll(h, kids, k + 1, base + cloneSize(h, kids[k]))

\* childCopy.parentId = parent.id; childCopy.id = generateId();
\* parent.children.push(childCopy)
pushCopy(R, parent, copy) ==
  [heap |-> [R.heap \o copy
               EXCEPT ![Len(R.heap) + 1].parentId = R.heap[parent].id,
                      ![Len(R.heap) + 1].id = R.idc,
                      ![R.heap[parent].children].elems = Append(@, Len(R.heap) + 1)],
   idc |-> R.idc + 1]

resolveName(R, g, parent, pieceName) ==
  IF pieceName \in DOMAIN g
    THEN pushCopy(R, parent, jsonClone(R.heap, g[pieceName], Len(R.heap)))
    ELSE R

RECURSIVE resolveNames(_, _, _, _, _)
\* The loop over the names, were it to end at the first unknown name.
resolveNamesUntilMissing(R, g, parent, pieceNames, k) ==
  IF k > Len(pieceNames) \/ pieceNames[k] \notin DOMAIN g THEN R
  ELSE resolveNames(resolveName(R, g, parent, pieceNames[k]), g, parent,
                    pieceNames, k + 1)

resolveNames(R, g, parent, pieceNames, k) ==
  IF k > Len(pieceNames) THEN R
  ELSE resolveNames(resolveName(R, g, parent, pieceNames[k]), g, parent,
                    pieceNames, k + 1)

resolveEntry(R, g, parent, pieceNames) ==
  IF parent = 0 THEN R ELSE resolveNames(R, g, parent, pieceNames, 1)

RECURSIVE resolveEntries(_, _, _, _, _)
resolveEntries(R, g, all, pend, j) ==
  IF j > Len(pend) THEN R
  ELSE resolveEntries(
         resolveEntry(R, g, allPiecesById(R.heap, all, pend[j].id), pend[j].names),
         g, all, pend, j + 1)

RECURSIVE resolveFiles(_, _, _, _, _)
resolveFiles(R, g, all, fs, i) ==
  IF i > Len(fs) THEN R
  ELSE resolveFiles(resolveEntries(R, g, all, fs[i].unresolvedPieces, 1),
                    g, all, fs, i + 1)

\* resolvePiecesReferences(parsedFiles): the heap and the id counter after.
resolvePiecesReferences(h, idc, fs) ==
  resolveFiles([heap |-> h, idc |-> idc], mergeRegistries(fs, 1, EmptyMap),
               collectPieces(h, screensOf(fs)), fs, 1)

(***************************************************************************)
(* The serializer.  Its output text is modelled by the element tree the    *)
(* text denotes: one element per pushed open/close pair, one leaf per      *)
(* serializeProperty line.  Each helper yields the elements it pushes.     *)
(***************************************************************************)
serializeProperty(name, value) == <<Leaf(name, value)>>

\* serializePoint without the suppression of the default (0, 0).
serializePointAlways(name, point) ==
  <<El(name, "", <<Leaf("X", numberToString(point.x)),
                   Leaf("Y", numberToString(point.y))>>)>>

serializePoint(name, point) ==
  IF point.x = 0 /\ point.y = 0 THEN <<>>
  ELSE <<El(name, "", <<Leaf("X", numberToString(point.x)),
                        Leaf("Y", numberToString(point.y))>>)>>

serializeSize(name, size) ==
  IF size.cx = 0 /\ size.cy = 0 THEN <<>>
  ELSE <<El(name, "", <<Leaf("CX", numberToString(size.cx)),
                        Leaf("CY", numberToString(size.cy))>>)>>

serializeRGB(name, color) ==
  <<El(name, "", <<Leaf("A", numberToString(color.alpha)),
                   Leaf("R", numberToString(color.r)),
                   Leaf("G", numberToString(color.g)),
                   Leaf("B", numberToString(color.b))>>)>>

serializeStyleFlags(style) ==
  (IF style.transparent THEN serializeProperty("Style_Transparent", "true") ELSE <<>>)
  \o (IF style.border THEN serializeProperty("Style_Border", "true") ELSE <<>>)
  \o (IF style.titlebar THEN serializeProperty("Style_Titlebar", "true") ELSE <<>>)
  \o (IF style.closebox THEN serializeProperty("Style_Closebox", "true") ELSE <<>>)
  \o (IF style.minimizebox THEN serializeProperty("Style_Minimizebox", "true") ELSE <<>>)
  \o (IF style.tilebox THEN serializeProperty("Style_Tilebox", "true") ELSE <<>>)
  \o (IF style.sizable THEN serializeProperty("Style_Sizable", "true") ELSE <<>>)
  \o (IF style.escapeClose THEN serializeProperty("Style_EscapeClose", "true") ELSE <<>>)
  \o (IF style.vScroll THEN serializeProperty("Style_VScroll", "true") ELSE <<>>)
  \o (IF style.hScroll THEN serializeProperty("Style_HScroll", "true") ELSE <<>>)

\* A number is truthy unless it is 0 or NaN.
truthyNumber(n) == n # 0 /\ n # NaN /\ n # Null

\* 'eqType' in piece && piece.eqType
truthyEqType(p) ==
  /\ "eqType" \in DOMAIN p.extras
  /\ IF p.extras["eqType"].isNum THEN truthyNumber(p.extras["eqType"].n)
     ELSE p.extras["eqType"].s # ""

eqTypeText(p) ==
  IF p.extras["eqType"].isNum THEN numberToString(p.extras["eqType"].n)
  ELSE p.extras["eqType"].s

\* The lines shared by serializeScreen and serializeScreenPiece after the
\* positioning block: appearance, style flags, DrawTemplate.
serializeAppearance(h, p) ==
  (IF p.textColor # 0 THEN serializeRGB("TextColor", h[p.textColor]) ELSE <<>>)
  \o (IF truthyNumber(p.font) THEN serializeProperty("Font", numberToString(p.font))
      ELSE <<>>)
  \o (IF p.text # "" THEN serializeProperty("Text", p.text) ELSE <<>>)
  \o (IF p.tooltip # "" THEN serializeProperty("TooltipReference", p.tooltip)
      ELSE <<>>)
  \o serializeStyleFlags(h[p.style])
  \o (IF p.drawTemplate # "" THEN serializeProperty("DrawTemplate", p.drawTemplate)
      ELSE <<>>)

serializeCore(h, p) ==
  serializeProperty("ScreenID", p.screenId)
  \o serializePoint("Location", h[p.location])
  \o serializeSize("Size", h[p.size])
  \o (IF p.relativePosition THEN serializeProperty("RelativePosition", "true")
      ELSE <<>>)
  \o (IF p.autoStretch THEN serializeProperty("AutoStretch", "true") ELSE <<>>)

serializeAnchors(p) ==
  (IF ~p.topAnchorToTop THEN serializeProperty("TopAnchorToTop", "false") ELSE <<>>)
  \o (IF p.bottomAnchorToTop THEN serializeProperty("BottomAnchorToTop", "true")
      ELSE <<>>)
  \o (IF ~p.leftAnchorToLeft THEN serializeProperty("LeftAnchorToLeft", "false")
      ELSE <<>>)
  \o (IF p.rightAnchorToLeft THEN serializeProperty("RightAnchorToLeft", "true")
      ELSE <<>>)
  \o (IF truthyNumber(p.topAnchorOffset)
        THEN serializeProperty("TopOffset", numberToString(p.topAnchorOffset))
        ELSE <<>>)
  \o (IF truthyNumber(p.bottomAnchorOffset)
        THEN serializeProperty("BottomOffset", numberToString(p.bottomAnchorOffset))
        ELSE <<>>)
  \o (IF truthyNumber(p.leftAnchorOffset)
        THEN serializeProperty("LeftOffset", numberToString(p.leftAnchorOffset))
        ELSE <<>>)
  \o (IF truthyNumber(p.rightAnchorOffset)
        THEN serializeProperty("RightOffset", numberToString(p.rightAnchorOffset))
        ELSE <<>>)

RECURSIVE serializeScreenPiece(_, _)
serializeScreenPiece(h, a) ==
  El(h[a].type, h[a].item,
     serializeCore(h, h[a])
     \o serializeAppearance(h, h[a])
     \o (IF truthyEqType(h[a]) THEN serializeProperty("EQType", eqTypeText(h[a]))
         ELSE <<>>)
     \o [k \in 1 .. Len(h[h[a].children].elems) |->
           serializeScreenPiece(h, h[h[a].children].elems[k])])

serializeScreen(h, a) ==
  El("Screen", h[a].item,
     serializeCore(h, h[a])
     \o serializeAnchors(h[a])
     \o serializeAppearance(h, h[a])
     \o (IF h[a].windowDrawTemplate # ""
           THEN serializeProperty("WindowDrawTemplate", h[a].windowDrawTemplate)
           ELSE <<>>)
     \o [k \in 1 .. Len(h[h[a].children].elems) |->
           serializeScreenPiece(h, h[h[a].children].elems[k])])

\* serializeUIFile(file): the <XML> document element.
serializeUIFile(h, screens) ==
  El("XML", "", [k \in 1 .. Len(screens) |-> serializeScreen(h, screens[k])])

(***************************************************************************)
(* Factories.                                                              *)
(***************************************************************************)
emptyStyle ==
  [kind |-> "style", transparent |-> FALSE, border |-> FALSE,
   titlebar |-> FALSE, closebox |-> FALSE, minimizebox |-> FALSE,
   tilebox |-> FALSE, sizable |-> FALSE, escapeClose |-> FALSE,
   vScroll |-> FALSE, hScroll |-> FALSE]

\* createDefaultScreenPiece(type, screenId) at address a: the cells it adds.
\* style: {} has every flag undefined, which reads as false.
createDefaultScreenPiece(type, screenId, id, a) ==
  <<[kind |-> "piece", id |-> id, type |-> type, screenId |-> screenId,
     item |-> "", location |-> a + 1, size |-> a + 2,
     relativePosition |-> FALSE, autoStretch |-> FALSE,
     topAnchorToTop |-> TRUE, bottomAnchorToTop |-> FALSE,
     leftAnchorToLeft |-> TRUE, rightAnchorToLeft |-> FALSE,
     topAnchorOffset |-> 0, bottomAnchorOffset |-> 0,
     leftAnchorOffset |-> 0, rightAnchorOffset |-> 0,
     textColor |-> 0, font |-> 0, text |-> "", tooltip |-> "",
     style |-> a + 3, drawTemplate |-> "", windowDrawTemplate |-> "",
     children |-> a + 4, parentId |-> NoId, extras |-> EmptyMap],
    [kind |-> "point", x |-> 0, y |-> 0],
    [kind |-> "size", cx |-> 100, cy |-> 100],
    emptyStyle,
    arrayCell(<<>>)>>

\* createScreen(screenId): the default piece with size 400 x 300.
createScreen(screenId, id, a) ==
  [createDefaultScreenPiece("Screen", screenId, id, a)
     EXCEPT ![3] = [kind |-> "size", cx |-> 400, cy |-> 300]]

(***************************************************************************)
(* The documents the scenarios read.                                       *)
(***************************************************************************)
Doc(kids) == [malformed |-> FALSE, root |-> El("XML", "", kids), throwAt |-> {}]

PropMenu ==
  <<El("Location", "", <<Leaf("X", "3"), Leaf("Y", "4")>>),
    El("Size", "", <<Leaf("CX", "5"), Leaf("CY", "6")>>),
    Leaf("TopAnchorToTop", "false"),
    Leaf("RightAnchorToLeft", "TRUE"),
    Leaf("TopOffset", "7"),
    Leaf("Style_Border", "1"),
    El("TextColor", "", <<Leaf("A", "255"), Leaf("R", "1"), Leaf("G", "2"),
                          Leaf("B", "3")>>),
    Leaf("EQType", "1"),
    Leaf("GaugeDrawTemplate", "GT"),
    Leaf("Text", "hello")>>

PropSets == {ps \in SUBSET (1 .. Len(PropMenu)) : Cardinality(ps) <= MaxProps}

\* The chosen properties, in menu order.
menuItems(sel) == [k \in 1 .. Len(sel) |-> PropMenu[sel[k]]]
propsOf(ps) ==
  menuItems(SelectSeq([i \in 1 .. Len(PropMenu) |-> i], LAMBDA i : i \in ps))

MkPiece(tag, item, sid, ps, kids) ==
  El(tag, item,
     (IF sid = "" THEN <<>> ELSE <<Leaf("ScreenID", sid)>>) \o propsOf(ps) \o kids)

RootTags == {"Screen", "Button", "Gauge"}
KidTags == {"Button", "Gauge"}

KidChoices ==
  {<<>>} \cup {<<MkPiece(t, "", "Kid", ps, <<>>)>> : t \in KidTags, ps \in PropSets}

ContentDocs ==
  {Doc(<<MkPiece(t, "", "Win", ps, ks)>>) :
     t \in RootTags, ps \in PropSets, ks \in KidChoices}

\* Two plain top-level elements, parsing either of which may throw.
ThrowingDocs ==
  {[Doc(<<MkPiece("Screen", "A", "WinA", {}, <<>>),
          MkPiece("Button", "B", "BtnB", {}, <<>>)>>) EXCEPT !.throwAt = t] :
     t \in SUBSET {1, 2}}

MalformedDocs == {[malformed |-> TRUE, root |-> El("parsererror", "", <<>>),
                   throwAt |-> {}]}

IncludeTexts == {"EQUI_A.xml", "EQUI_B.xml", " "}

RECURSIVE SeqsUpTo(_, _)
SeqsUpTo(S, n) ==
  IF n = 0 THEN {<<>>}
  ELSE SeqsUpTo(S, n - 1)
       \cup {Append(q, x) : q \in {p \in SeqsUpTo(S, n - 1) : Len(p) = n - 1},
                            x \in S}

Composite(incs) ==
  El("Composite", "", [k \in 1 .. Len(incs) |-> Leaf("Include", incs[k])])

ManifestDocs == {Doc(<<Composite(incs)>>) : incs \in SeqsUpTo(IncludeTexts, MaxIncludes)}

\* An include list next to a window, a control or a template definition, in
\* either order.
Definitions ==
  {MkPiece("Screen", "W", "Win", {}, <<>>), MkPiece("Button", "B", "Btn", {}, <<>>),
   El("TextureInfo", "T", <<>>)}

MixedDocs ==
  {Doc(<<Composite(incs), d>>) :
     incs \in SeqsUpTo(IncludeTexts, MaxIncludes) \ {<<>>}, d \in Definitions}
  \cup {Doc(<<d, Composite(incs)>>) :
          incs \in SeqsUpTo(IncludeTexts, MaxIncludes) \ {<<>>}, d \in Definitions}

DocInputs ==
  ContentDocs \cup ThrowingDocs \cup MalformedDocs \cup ManifestDocs \cup MixedDocs

(***************************************************************************)
(* Scenario "document": one document is parsed, or one node is created by  *)
(* a factory; the result is serialized and the output parsed again.        *)
(***************************************************************************)
NoElement == El("", "", <<>>)
NoTex == [textures |-> EmptyMap, loading |-> EmptyMap, promises |-> <<>>,
          callers |-> <<>>]

InitDoc ==
  /\ pc = "start"
  /\ input \in [doc : DocInputs]
  /\ heap = <<>>
  /\ idCounter = 0
  /\ files = <<>>
  /\ out = NoElement
  /\ project = <<>>
  /\ tex = NoTex
  /\ prev = <<>>

\* The caller keeps the result; the heap and the id counter are the parser's.
Parsed(filename, S) ==
  /\ heap' = S.heap
  /\ idCounter' = S.idc
  /\ files' = Append(files, parsedFile(filename, S))

ParseDoc ==
  /\ pc = "start"
  /\ Parsed("EQUI_A.xml", parseEquiFile(input.doc, heap, idCounter))
  /\ pc' = "parsed"
  /\ UNCHANGED <<input, out, project, tex, prev>>

\* A node made by a factory and left untouched becomes the file's only
\* screen; with nested, a second factory node is added to its children
\* (elementsStore.addElement).
factoryCells(type, id, a) ==
  IF type = "Screen" THEN createScreen("New", id, a)
  ELSE createDefaultScreenPiece(type, "New", id, a)

withFactoryChild(h, parent, type, id) ==
  attachChild(h \o createDefaultScreenPiece(type, "Kid", id, Len(h) + 1),
              parent, Len(h) + 1)

CreateNode ==
  /\ pc = "start"
  /\ \E type \in {"Screen", "Button"}, nested \in BOOLEAN :
       /\ heap' = IF nested
                    THEN withFactoryChild(
                           heap \o factoryCells(type, idCounter, Len(heap) + 1),
                           Len(heap) + 1, "Button", idCounter + 1)
                    ELSE heap \o factoryCells(type, idCounter, Len(heap) + 1)
       /\ idCounter' = IF nested THEN idCounter + 2 ELSE idCounter + 1
       /\ files' = Append(files,
                     [parsedFile("EQUI_A.xml", emptyResult(heap, idCounter))
                        EXCEPT !.screens = <<Len(heap) + 1>>])
  /\ pc' = "created"
  /\ UNCHANGED <<input, out, project, tex, prev>>

SerializeDoc ==
  /\ pc \in {"parsed", "created"}
  /\ out' = serializeUIFile(heap, files[1].screens)
  /\ pc' = IF pc = "parsed" THEN "serialized" ELSE "exported"
  /\ UNCHANGED <<input, heap, idCounter, files, project, tex, prev>>

ReparseDoc ==
  /\ pc = "serialized"
  /\ Parsed("EQUI_A.xml",
            parseEquiFile([malformed |-> FALSE, root |-> out, throwAt |-> {}],
                          heap, idCounter))
  /\ pc' = "reparsed"
  /\ UNCHANGED <<input, out, project, tex, prev>>

NextDoc == ParseDoc \/ CreateNode \/ SerializeDoc \/ ReparseDoc

SpecDoc == InitDoc /\ [][NextDoc]_vars

(***************************************************************************)
(* Comparing two trees of the heap up to internal ids.                     *)
(***************************************************************************)
kidsOf(h, a) == h[h[a].children].elems

sameGeometry(h, a, b) ==
  /\ h[h[a].location].x = h[h[b].location].x
  /\ h[h[a].location].y = h[h[b].location].y
  /\ h[h[a].size].cx = h[h[b].size].cx
  /\ h[h[a].size].cy = h[h[b].size].cy

sameAnchors(p, q) ==
  /\ p.topAnchorToTop = q.topAnchorToTop
  /\ p.bottomAnchorToTop = q.bottomAnchorToTop
  /\ p.leftAnchorToLeft = q.leftAnchorToLeft
  /\ p.rightAnchorToLeft = q.rightAnchorToLeft
  /\ p.topAnchorOffset = q.topAnchorOffset
  /\ p.bottomAnchorOffset = q.bottomAnchorOffset
  /\ p.leftAnchorOffset = q.leftAnchorOffset
  /\ p.rightAnchorOffset = q.rightAnchorOffset

\* Type, external id, geometry, anchors, style flags and extras of one node.
sameNode(h, a, b) ==
  /\ h[a].type = h[b].type
  /\ h[a].screenId = h[b].screenId
  /\ sameGeometry(h, a, b)
  /\ sameAnchors(h[a], h[b])
  /\ h[h[a].style] = h[h[b].style]
  /\ h[a].extras = h[b].extras

RECURSIVE sameTree(_, _, _)
sameTree(h, a, b) ==
  /\ sameNode(h, a, b)
  /\ Len(kidsOf(h, a)) = Len(kidsOf(h, b))
  /\ \A k \in 1 .. Len(kidsOf(h, a)) :
       sameTree(h, kidsOf(h, a)[k], kidsOf(h, b)[k])

sameForest(h, xs, ys) ==
  /\ Len(xs) = Len(ys)
  /\ \A k \in 1 .. Len(xs) : sameTree(h, xs[k], ys[k])

\* C1: serializing a parsed element tree and parsing the output again yields
\* a tree whose nodes, root and nested, have the same type, screenId,
\* location, size, anchors, anchor offsets, style flags and extras.
C1_RoundTripPreserved ==
  pc = "reparsed" => sameForest(heap, files[1].screens, files[2].screens)

(***************************************************************************)
(* Scenario "resolve": documents A and B are parsed, their results handed  *)
(* to resolvePiecesReferences in either order, and one object of the       *)
(* resulting trees is then edited in place.                                *)
(***************************************************************************)
PieceNames == {"F", "G", "Nope"}
RefLists == SeqsUpTo(PieceNames, MaxRefs)

\* A fragment: item F with a nested item G.
Fragment(sid, gsid) ==
  MkPiece("Button", "F", sid, {1, 7}, <<MkPiece("Gauge", "G", gsid, {9}, <<>>)>>)

\* A node with one parse-time child and the Pieces references refs.
Referrer(tag, item, refs) ==
  MkPiece(tag, item, item, {},
          <<MkPiece("Label", "", "PK", {}, <<>>)>>
          \o [k \in 1 .. Len(refs) |-> Leaf("Pieces", refs[k])])

DocsA ==
  {Doc(<<Fragment("FA", "GA")>>),
   Doc(<<Fragment("FA", "GA"), Referrer("Screen", "XA", <<"F">>)>>),
   Doc(<<Referrer("Screen", "XA", <<"F">>)>>)}

DocsB ==
  UNION {{Doc(<<Referrer(tag, "X", refs)>>),
          Doc(<<Fragment("FB", "GB"), Referrer(tag, "X", refs)>>),
          Doc(<<Referrer(tag, "X", refs), Fragment("FB", "GB")>>)} :
           tag \in {"Screen", "Button"}, refs \in RefLists}

InitResolve ==
  /\ pc = "start"
  /\ input \in [docs : {<<a, b>> : a \in DocsA, b \in DocsB},
                 order : {<<1, 2>>, <<2, 1>>}]
  /\ heap = <<>>
  /\ idCounter = 0
  /\ files = <<>>
  /\ out = NoElement
  /\ project = <<>>
  /\ tex = NoTex
  /\ prev = <<>>

FileNames == <<"EQUI_A.xml", "EQUI_B.xml">>

ParseFile ==
  /\ pc = "start"
  /\ Parsed(FileNames[Len(files) + 1],
            parseEquiFile(input.docs[Len(files) + 1], heap, idCounter))
  /\ pc' = IF Len(files) = 1 THEN "parsed" ELSE "start"
  /\ UNCHANGED <<input, out, project, tex, prev>>

Resolved(R) ==
  /\ heap' = R.heap
  /\ idCounter' = R.idc
  /\ prev' = Append(prev, heap)

\* The files in the order they are handed to the resolver.
ordered == [k \in 1 .. Len(input.order) |-> files[input.order[k]]]

Resolve ==
  /\ pc = "parsed"
  /\ Resolved(resolvePiecesReferences(heap, idCounter, ordered))
  /\ pc' = "resolved"
  /\ UNCHANGED <<input, files, out, project, tex>>

\* One edit of the object at address x: Object.assign on a piece, a write to
\* a field of its location, size, colour or style, a push on its children.
editCell(h, x, idc) ==
  IF h[x].kind = "piece" THEN [h EXCEPT ![x].screenId = "Edited", ![x].text = "Edited"]
  ELSE IF h[x].kind = "point" THEN [h EXCEPT ![x].x = 99]
  ELSE IF h[x].kind = "size" THEN [h EXCEPT ![x].cx = 99]
  ELSE IF h[x].kind = "rgb" THEN [h EXCEPT ![x].r = 99]
  ELSE IF h[x].kind = "style" THEN [h EXCEPT ![x].border = ~@]
  ELSE [h \o createDefaultScreenPiece("Label", "Added", idc, Len(h) + 1)
          EXCEPT ![x].elems = Append(@, Len(h) + 1)]

Mutate ==
  /\ pc = "resolved"
  /\ \E x \in 1 .. Len(heap) :
       /\ heap' = editCell(heap, x, idCounter)
       /\ idCounter' = IF heap[x].kind = "array" THEN idCounter + 1 ELSE idCounter
  /\ prev' = Append(prev, heap)
  /\ pc' = "mutated"
  /\ UNCHANGED <<input, files, out, project, tex>>

\* resolvePiecesReferences is called once more on the same parse results.
ResolveAgain ==
  /\ pc = "resolved"
  /\ Resolved(resolvePiecesReferences(heap, idCounter, ordered))
  /\ pc' = "resolvedAgain"
  /\ UNCHANGED <<input, files, out, project, tex>>

NextResolve == ParseFile \/ Resolve \/ Mutate \/ ResolveAgain

SpecResolve == InitResolve /\ [][NextResolve]_vars

(***************************************************************************)
(* Scenario "nested references": as "resolve", with a fragment F that      *)
(* itself lists the name G in a Pieces reference.                          *)
(***************************************************************************)
FragmentRef == MkPiece("Button", "F", "FA", {}, <<Leaf("Pieces", "G")>>)
Leaf_G == MkPiece("Gauge", "G", "GA", {}, <<>>)

NestedA ==
  {Doc(<<Leaf_G, FragmentRef>>), Doc(<<FragmentRef, Leaf_G>>),
   Doc(<<Referrer("Screen", "XA", <<"F">>), FragmentRef, Leaf_G>>),
   Doc(<<FragmentRef, Leaf_G, Referrer("Screen", "XA", <<"F">>)>>)}

NestedB ==
  {Doc(<<>>)}
  \cup {Doc(<<Referrer(tag, "X", refs)>>) :
          tag \in {"Screen", "Button"}, refs \in {<<"F">>, <<"G", "F">>}}

InitNested ==
  /\ pc = "start"
  /\ input \in [docs : {<<a, b>> : a \in NestedA, b \in NestedB},
                 order : {<<1, 2>>, <<2, 1>>}]
  /\ heap = <<>>
  /\ idCounter = 0
  /\ files = <<>>
  /\ out = NoElement
  /\ project = <<>>
  /\ tex = NoTex
  /\ prev = <<>>

SpecNested == InitNested /\ [][NextResolve]_vars

(***************************************************************************)
(* The project store.  L is the state a load call works on: the heap, the  *)
(* id counter, project.value, the ParsedEquiFile results produced so far   *)
(* (all) and those of the running call (parsed).                           *)
(***************************************************************************)
createProject ==
  [files |-> <<>>,
   templates |-> [textures |-> EmptyMap, animations |-> EmptyMap,
                  frameTemplates |-> EmptyMap, buttonTemplates |-> EmptyMap,
                  gaugeTemplates |-> EmptyMap, sliderTemplates |-> EmptyMap,
                  scrollbarTemplates |-> EmptyMap, windowTemplates |-> EmptyMap],
   activeFileName |-> "",
   elements |-> EmptyMap]

\* elementsStore.loadElementTree: child.parentId = element.id for every
\* child of the tree at a, depth first.
RECURSIVE flatten(_, _)
RECURSIVE flattenKids(_, _, _)
flatten(h, a) == flattenKids(h, a, 1)
flattenKids(h, a, k) ==
  IF k > Len(h[h[a].children].elems) THEN h
  ELSE flattenKids(
         flatten([h EXCEPT ![h[h[a].children].elems[k]].parentId = h[a].id],
                 h[h[a].children].elems[k]),
         a, k + 1)

RECURSIVE loadElementTrees(_, _)
loadElementTrees(h, screens) ==
  IF screens = <<>> THEN h
  ELSE loadElementTrees(flatten(h, Head(screens)), Tail(screens))

\* The elements map after the trees have been flattened into it.
elementsMap(h, all) ==
  [id \in {h[all[k]].id : k \in 1 .. Len(all)} |-> allPiecesById(h, all, id)]

fileNamed(pfiles, filename) ==
  SelectSeq(pfiles, LAMBDA f : f.filename = filename)

activate(L, filename, screens) ==
  [L EXCEPT !.heap = loadElementTrees(L.heap, screens),
            !.project.activeFileName = filename,
            !.project.elements = elementsMap(loadElementTrees(L.heap, screens),
                                             collectPieces(L.heap, screens))]

\* setActiveFile(filename) for a file name that is not null.
setActiveFile(L, filename) ==
  IF fileNamed(L.project.files, filename) = <<>>
    THEN [L EXCEPT !.project.activeFileName = filename]
    ELSE activate(L, filename, fileNamed(L.project.files, filename)[1].screens)

\* Add or replace file in project.
addOrReplace(pfiles, uiFile) ==
  IF \E k \in 1 .. Len(pfiles) : pfiles[k].filename = uiFile.filename
    THEN [pfiles EXCEPT ![CHOOSE k \in 1 .. Len(pfiles) :
                            /\ pfiles[k].filename = uiFile.filename
                            /\ \A j \in 1 .. k - 1 :
                                 pfiles[j].filename # uiFile.filename] = uiFile]
    ELSE Append(pfiles, uiFile)

\* The six maps the load copies from a parsed file into the project.
mergedMaps ==
  {"textures", "animations", "frameTemplates", "buttonTemplates",
   "gaugeTemplates", "windowTemplates"}

mergeTemplates(T, P) ==
  [k \in DOMAIN T |-> IF k \in mergedMaps THEN P[k] @@ T[k] ELSE T[k]]

\* The UIFile of a parse result enters the project, its templates merged.
storeParsed(L, filename, S) ==
  [heap |-> S.heap,
   idc |-> S.idc,
   project |-> [L.project EXCEPT
                  !.files = addOrReplace(@, [filename |-> filename,
                                             screens |-> S.screens,
                                             isDirty |-> FALSE]),
                  !.templates = mergeTemplates(@, S.templates)],
   all |-> Append(L.all, parsedFile(filename, S)),
   parsed |-> Append(L.parsed, parsedFile(filename, S))]

withResolved(L, R) == [L EXCEPT !.heap = R.heap, !.idc = R.idc]

\* loadFile(file): parse, resolve [parsed], store, make the file active.
loadFile(L, filename, S) ==
  setActiveFile(
    withResolved(storeParsed(L, filename, S),
                 resolvePiecesReferences(S.heap, S.idc, <<parsedFile(filename, S)>>)),
    filename)

\* files.find(f => f.name === 'EQUI.xml' || f.name.toLowerCase() === 'equi.xml')
isManifestName(n) == n = "EQUI.xml" \/ toLowerCase(n) = "equi.xml"
manifestNames(names) == SelectSeq(names, isManifestName)

rangeOf(s) == {s[k] : k \in 1 .. Len(s)}

\* The manifest's includes that are among the files, then the files that
\* are neither listed nor the manifest.
listedFiles(names, includes) == SelectSeq(includes, LAMBDA n : n \in rangeOf(names))
manifestOrder(names, mf, listed) ==
  listed \o SelectSeq(names, LAMBDA n : n \notin rangeOf(listed) /\ n # mf)

orderedFiles(names, mf, S) ==
  IF S.includes # <<>> THEN manifestOrder(names, mf, listedFiles(names, S.includes))
  ELSE names

\* One round of the loop over orderedFiles: a manifest is skipped.
loadOne(L, filename, S) ==
  IF isManifestFile(parsedFile(filename, S))
    THEN [L EXCEPT !.heap = S.heap, !.idc = S.idc]
    ELSE storeParsed(L, filename, S)

RECURSIVE loadEach(_, _, _, _)
loadEach(L, disk, names, i) ==
  IF i > Len(names) THEN L
  ELSE loadEach(loadOne(L, names[i],
                        parseEquiFile(disk[names[i]], L.heap, L.idc)),
                disk, names, i + 1)

resolveAllParsed(L) ==
  IF L.parsed # <<>>
    THEN withResolved(L, resolvePiecesReferences(L.heap, L.idc, L.parsed))
    ELSE L

filesWithScreens(pfiles) == SelectSeq(pfiles, LAMBDA f : f.screens # <<>>)

activateFirst(L, candidates) ==
  IF candidates = <<>> THEN L ELSE setActiveFile(L, candidates[1].filename)
activateFirstWithScreens(L) == activateFirst(L, filesWithScreens(L.project.files))

\* The loop, the resolution and the activation, after the manifest (if any)
\* has been read with result S.
loadOrdered(L, disk, names, mf, S) ==
  activateFirstWithScreens(
    resolveAllParsed(
      loadEach([L EXCEPT !.heap = S.heap, !.idc = S.idc], disk,
               orderedFiles(names, mf, S), 1)))

loadWithManifest(L, disk, names, mf) ==
  loadOrdered(L, disk, names, mf, parseEquiFile(disk[mf], L.heap, L.idc))

\* loadFiles(files), files given by their names.
loadFiles(L, disk, names) ==
  IF manifestNames(names) # <<>>
    THEN loadWithManifest(L, disk, names, manifestNames(names)[1])
    ELSE activateFirstWithScreens(resolveAllParsed(loadEach(L, disk, names, 1)))

(***************************************************************************)
(* Scenario "load": the files of a directory are loaded into the project   *)
(* by a sequence of loadFile and loadFiles calls.                          *)
(***************************************************************************)
DiskNames == {"EQUI.xml", "EQUI_A.xml", "EQUI_B.xml"}

ManifestChoices ==
  {Doc(<<Composite(incs)>>) :
     incs \in {<<"EQUI_A.xml", "EQUI_B.xml">>, <<"EQUI_B.xml", "EQUI_A.xml">>,
               <<"EQUI_B.xml">>}}

Disks ==
  {("EQUI.xml" :> m) @@ ("EQUI_A.xml" :> Doc(<<Fragment("FA", "GA")>>))
   @@ ("EQUI_B.xml" :> Doc(<<Referrer(tag, "X", <<"Nope", "F">>)>>)) :
     m \in ManifestChoices, tag \in {"Screen", "Button"}}

\* The arguments of a loadFiles call: some of the files, in some order.
FileLists ==
  {s \in SeqsUpTo(DiskNames, Cardinality(DiskNames)) :
     s # <<>> /\ \A i, j \in 1 .. Len(s) : i # j => s[i] # s[j]}

InitLoad ==
  /\ pc = 0
  /\ input \in [disk : Disks]
  /\ heap = <<>>
  /\ idCounter = 0
  /\ files = <<>>
  /\ out = NoElement
  /\ project = createProject
  /\ tex = NoTex
  /\ prev = <<>>

storeState == [heap |-> heap, idc |-> idCounter, project |-> project,
               all |-> files, parsed |-> <<>>]

Loaded(L) ==
  /\ heap' = L.heap
  /\ idCounter' = L.idc
  /\ project' = L.project
  /\ files' = L.all
  /\ pc' = pc + 1
  /\ UNCHANGED <<input, out, tex, prev>>

LoadFile ==
  /\ pc < MaxCalls
  /\ \E n \in DiskNames :
       Loaded(loadFile(storeState, n, parseEquiFile(input.disk[n], heap, idCounter)))

LoadFiles ==
  /\ pc < MaxCalls
  /\ \E names \in FileLists : Loaded(loadFiles(storeState, input.disk, names))

NextLoad == LoadFile \/ LoadFiles

SpecLoad == InitLoad /\ [][NextLoad]_vars

\* The parse result behind each file of the project: the last one produced
\* under its name.
currentParse(filename) ==
  files[CHOOSE k \in 1 .. Len(files) :
          /\ files[k].filename = filename
          /\ \A j \in k + 1 .. Len(files) : files[j].filename # filename]

projectParses == {currentParse(project.files[k].filename) : k \in 1 .. Len(project.files)}
projectNames == UNION {DOMAIN f.itemRegistry : f \in projectParses}

pieceWithId(id) ==
  CHOOSE a \in 1 .. Len(heap) : heap[a].kind = "piece" /\ heap[a].id = id

hasCloneOf(a, n) ==
  \E k \in 1 .. Len(kidsOf(heap, a)) :
    /\ heap[kidsOf(heap, a)[k]].item = n
    /\ \A f \in projectParses :
         n \in DOMAIN f.itemRegistry => f.itemRegistry[n] # kidsOf(heap, a)[k]

\* C4: after any sequence of loadFile and loadFiles calls, every pending
\* reference of a document in the project whose name some document in the
\* project defines has a clone under its referencing node.
C4_ResolvedAgainstAllLoaded ==
  \A f \in projectParses :
    \A j \in 1 .. Len(f.unresolvedPieces) :
      \A n \in rangeOf(f.unresolvedPieces[j].names) :
        n \in projectNames => hasCloneOf(pieceWithId(f.unresolvedPieces[j].id), n)

(***************************************************************************)
(* decodeTgaCustom.  data is the sequence of the file's bytes; an offset   *)
(* is kept in eighths of a byte, because the colour map skip adds          *)
(* colorMapLength * (colorMapDepth / 8), which need not be whole.  A read  *)
(* outside the data or at a fractional offset gives undefined.             *)
(***************************************************************************)
Undefined == -1

byteAt(data, off8) ==
  IF off8 % 8 = 0 /\ off8 \div 8 < Len(data) THEN data[off8 \div 8 + 1]
  ELSE Undefined

\* DataView.getUint16(o, true)
getUint16(data, o) == data[o + 1] + 256 * data[o + 2]

\* A store into the Uint8ClampedArray: undefined becomes 0.
stored(v) == IF v = Undefined THEN 0 ELSE v

\* (b & mask) !== 0 for a one-bit mask, undefined & mask being 0.
bitSet(b, mask) == b # Undefined /\ (b \div mask) % 2 = 1

\* How a pixel is read: by image type first, then by bytesPerPixel.
pixelKind(imageType, bitsPerPixel) ==
  IF imageType \in {3, 11} THEN "gray"
  ELSE IF bitsPerPixel = 24 THEN "bgr"
  ELSE IF bitsPerPixel = 32 THEN "bgra"
  ELSE "none"

pixelBytes(kind) ==
  IF kind = "gray" THEN 1 ELSE IF kind = "bgr" THEN 3
  ELSE IF kind = "bgra" THEN 4 ELSE 0

\* The bytes of a pixel stored in file order.
rawPixelUnordered(data, off8, kind) ==
  IF kind = "gray"
    THEN <<stored(byteAt(data, off8)), stored(byteAt(data, off8)),
           stored(byteAt(data, off8)), 255>>
  ELSE IF kind = "bgr"
    THEN <<stored(byteAt(data, off8)), stored(byteAt(data, off8 + 8)),
           stored(byteAt(data, off8 + 16)), 255>>
  ELSE IF kind = "bgra"
    THEN <<stored(byteAt(data, off8)), stored(byteAt(data, off8 + 8)),
           stored(byteAt(data, off8 + 16)), stored(byteAt(data, off8 + 24))>>
  ELSE <<0, 0, 0, 0>>

\* The pixel <<r, g, b, a>> that the uncompressed loop or a raw packet
\* stores from the bytes at off8; without a matching branch nothing is
\* stored and the pixel keeps the array's initial zeros.
rawPixel(data, off8, kind) ==
  IF kind = "gray"
    THEN <<stored(byteAt(data, off8)), stored(byteAt(data, off8)),
           stored(byteAt(data, off8)), 255>>
  ELSE IF kind = "bgr"
    THEN <<stored(byteAt(data, off8 + 16)), stored(byteAt(data, off8 + 8)),
           stored(byteAt(data, off8)), 255>>
  ELSE IF kind = "bgra"
    THEN <<stored(byteAt(data, off8 + 16)), stored(byteAt(data, off8 + 8)),
           stored(byteAt(data, off8)), stored(byteAt(data, off8 + 24))>>
  ELSE <<0, 0, 0, 0>>

\* The pixel a run packet repeats: b, g, r start at 0 and a at 255.
runPixel(data, off8, kind) ==
  IF kind = "none" THEN <<0, 0, 0, 255>> ELSE rawPixel(data, off8, kind)

\* count pixels read one after the other from off8.
rawPixels(data, off8, kind, count) ==
  [j \in 1 .. count |-> rawPixel(data, off8 + (j - 1) * 8 * pixelBytes(kind), kind)]

min(a, b) == IF a <= b THEN a ELSE b

\* packet & 0x7F without the + 1.
packetCountNoBias(lead) == IF lead = Undefined THEN 0 ELSE lead % 128

\* (packet & 0x7F) + 1
packetCount(lead) == IF lead = Undefined THEN 1 ELSE (lead % 128) + 1

\* The RLE loop from a state D = [pixels, off8] until n pixels are stored.
RECURSIVE decodeRle(_, _, _, _)
runPacket(data, D, kind, m) ==
  [pixels |-> D.pixels \o [j \in 1 .. m |-> runPixel(data, D.off8 + 8, kind)],
   off8 |-> D.off8 + 8 + 8 * pixelBytes(kind)]

rawPacket(data, D, kind, m) ==
  [pixels |-> D.pixels \o rawPixels(data, D.off8 + 8, kind, m),
   off8 |-> D.off8 + 8 + 8 * pixelBytes(kind) * m]

\* A packet stored whole, however many pixels are still missing.
readPacketWhole(data, D, kind, n, lead) ==
  IF bitSet(lead, 128)
    THEN runPacket(data, D, kind, packetCount(lead))
    ELSE rawPacket(data, D, kind, packetCount(lead))

readPacket(data, D, kind, n, lead) ==
  IF bitSet(lead, 128)
    THEN runPacket(data, D, kind, min(packetCount(lead), n - Len(D.pixels)))
    ELSE rawPacket(data, D, kind, min(packetCount(lead), n - Len(D.pixels)))

decodeRle(data, D, kind, n) ==
  IF Len(D.pixels) >= n THEN D
  ELSE decodeRle(data, readPacket(data, D, kind, n, byteAt(data, D.off8)), kind, n)

\* The loop that swaps row y with row height - 1 - y while y < height / 2.
RECURSIVE flipRows(_, _, _)
RECURSIVE flipRowsEveryRow(_, _, _)
swapRows(rows, i, j) == [rows EXCEPT ![i] = rows[j], ![j] = rows[i]]
\* The swap loop run for every y below height.
flipRowsEveryRow(rows, y, height) ==
  IF y < height
    THEN flipRowsEveryRow(swapRows(rows, y + 1, height - y), y + 1, height)
  ELSE rows

flipRows(rows, y, height) ==
  IF 2 * y < height THEN flipRows(swapRows(rows, y + 1, height - y), y + 1, height)
  ELSE rows

rowsOf(pixels, width, height) ==
  [r \in 1 .. height |-> SubSeq(pixels, (r - 1) * width + 1, r * width)]

RECURSIVE joinRows(_)
joinRows(rows) == IF rows = <<>> THEN <<>> ELSE Head(rows) \o joinRows(Tail(rows))

\* The header fields decodeTgaCustom reads; bytes 16 and 17 may be missing.
header(data) ==
  [idLength |-> data[1], colorMapType |-> data[2], imageType |-> data[3],
   colorMapLength |-> getUint16(data, 5), colorMapDepth |-> data[8],
   width |-> getUint16(data, 12), height |-> getUint16(data, 14),
   bitsPerPixel |-> byteAt(data, 16 * 8),
   topToBottom |-> bitSet(byteAt(data, 17 * 8), 32)]

\* offset after the header, the id field and the colour map, in eighths.
pixelOffset(H) ==
  8 * (18 + H.idLength)
  + (IF H.colorMapType = 1 THEN H.colorMapLength * H.colorMapDepth ELSE 0)

\* pixels and off8 are the locals pixels (before the flip) and offset as
\* they stand when the function returns or throws.
thrown(message) ==
  [ok |-> FALSE, error |-> message, width |-> 0, height |-> 0, data |-> <<>>,
   pixels |-> <<>>, off8 |-> 0]

returned(H, D) ==
  [ok |-> TRUE, error |-> "", width |-> H.width, height |-> H.height,
   data |-> IF H.topToBottom THEN D.pixels
            ELSE joinRows(flipRows(rowsOf(D.pixels, H.width, H.height), 0,
                                   H.height)),
   pixels |-> D.pixels, off8 |-> D.off8]

decodePixels(data, H, kind, n) ==
  IF H.imageType \in {2, 3}
    THEN [pixels |-> rawPixels(data, pixelOffset(H), kind, n),
          off8 |-> pixelOffset(H) + 8 * pixelBytes(kind) * n]
    ELSE decodeRle(data, [pixels |-> <<>>, off8 |-> pixelOffset(H)], kind, n)

\* decodeTgaCustom with the test of the image type left out.
decodeHeaderAnyType(data, H) ==
  IF H.width = 0 \/ H.height = 0 THEN thrown("Invalid TGA dimensions")
  ELSE returned(H, decodePixels(data, H, pixelKind(H.imageType, H.bitsPerPixel),
                                H.width * H.height))

decodeHeader(data, H) ==
  IF H.width = 0 \/ H.height = 0 THEN thrown("Invalid TGA dimensions")
  ELSE IF H.imageType \notin {2, 3, 10, 11}
    THEN thrown("Unsupported TGA image type")
  ELSE returned(H, decodePixels(data, H, pixelKind(H.imageType, H.bitsPerPixel),
                                H.width * H.height))

\* decodeTgaCustom(data); getUint16 throws a RangeError on short data.
decodeTgaCustom(data) ==
  IF Len(data) < 16 THEN thrown("RangeError") ELSE decodeHeader(data, header(data))

(***************************************************************************)
(* TextureManager.  tex.textures and tex.loading are the two maps, keyed   *)
(* by texture name; tex.promises are the promises loadTextureFile has      *)
(* returned, tex.callers the loadFromFile calls made so far.               *)
(***************************************************************************)
\* file.name.replace(/\.[^.]+$/, '') and file.name.split('.').pop()
textureName(filename) == IF filename \in {"a.tga", "a.png"} THEN "a" ELSE filename
extension(filename) ==
  IF filename = "a.tga" THEN "tga" ELSE IF filename = "a.png" THEN "png" ELSE ""

MapRemove(m, k) == [x \in (DOMAIN m) \ {k} |-> m[x]]

\* loadTga: the TextureData of a decoded file, or the decoder's error.
textureData(filename, decoded) ==
  [state |-> "fulfilled", source |-> filename, filename |-> filename,
   width |-> decoded.width,
   height |-> decoded.height, imageData |-> decoded.data, error |-> ""]
rejection(filename, message) ==
  [state |-> "rejected", source |-> filename, filename |-> "", width |-> 0,
   height |-> 0,
   imageData |-> <<>>, error |-> message]

loadTga(filename, decoded) ==
  IF decoded.ok THEN textureData(filename, decoded) ELSE rejection(filename, decoded.error)

\* loadStandardImage: img.onload (loads) or img.onerror.
loadStandardImage(filename, loads) ==
  IF loads
    THEN textureData(filename, [width |-> 1, height |-> 1,
                                data |-> <<<<255, 255, 255, 255>>>>])
    ELSE rejection(filename, "Failed to load image")

pendingPromise(filename) ==
  [state |-> "pending", source |-> filename, filename |-> "", width |-> 0,
   height |-> 0,
   imageData |-> <<>>, error |-> ""]

\* The promises carry the file they load as source; a TextureData has the
\* file's name as filename.
\* A loadFromFile call: promise is the promise it awaits or has returned
\* (0: none), at its position, result what its caller has received.
caller(filename, at, promise, result) ==
  [filename |-> filename, at |-> at, promise |-> promise, result |-> result]

\* loadFromFile up to its first await.
startLoad(T, filename) ==
  IF textureName(filename) \in DOMAIN T.textures
    THEN [T EXCEPT !.callers =
            Append(@, caller(filename, "done", 0,
                             T.textures[textureName(filename)]))]
  ELSE IF textureName(filename) \in DOMAIN T.loading
    THEN [T EXCEPT !.callers =
            Append(@, caller(filename, "returned",
                             T.loading[textureName(filename)],
                             pendingPromise(filename)))]
  ELSE [T EXCEPT !.promises = Append(@, pendingPromise(filename)),
                 !.loading = MapSet(@, textureName(filename), Len(T.promises) + 1),
                 !.callers = Append(@, caller(filename, "awaiting",
                                              Len(T.promises) + 1,
                                              pendingPromise(filename)))]

resumeLoadKeepsMarker(T, c, settled) ==
  [T EXCEPT !.textures = IF settled.state = "fulfilled"
                           THEN MapSet(@, textureName(T.callers[c].filename), settled)
                           ELSE @,
            !.loading = IF settled.state = "fulfilled"
                          THEN MapRemove(@, textureName(T.callers[c].filename))
                          ELSE @,
            !.callers[c].at = "done",
            !.callers[c].result = settled]

\* loadFromFile after await loadPromise: textures.set on success, and
\* loading.delete in the finally block.
resumeLoad(T, c, settled) ==
  [T EXCEPT !.textures = IF settled.state = "fulfilled"
                           THEN MapSet(@, textureName(T.callers[c].filename), settled)
                           ELSE @,
            !.loading = MapRemove(@, textureName(T.callers[c].filename)),
            !.callers[c].at = "done",
            !.callers[c].result = settled]

(***************************************************************************)
(* Scenario "texture": loadFromFile is called for a.tga, whose bytes are   *)
(* the input, and for a.png; the calls run concurrently.                   *)
(***************************************************************************)
\* An 18-byte header without id field and colour map.
tgaHeader(imageType, width, height, bitsPerPixel, descriptor) ==
  <<0, 0, imageType, 0, 0, 0, 0, 0, 0, 0, 0, 0,
    width % 256, width \div 256, height % 256, height \div 256,
    bitsPerPixel, descriptor>>

TypeCodes == {0, 1, 2, 3, 9, 10, 11, 12}

TgaInputs ==
  {tgaHeader(t, w, h, bpp, 0) \o <<10, 20, 30>> :
     t \in TypeCodes, w \in 0 .. MaxDim, h \in 0 .. MaxDim, bpp \in {8, 24}}
  \cup {<<0, 0, 2, 0, 0, 0, 0, 0, 0, 0>>}

TextureFiles == {"a.tga", "a.png"}

InitTex ==
  /\ pc = "run"
  /\ input \in [bytes : TgaInputs]
  /\ heap = <<>>
  /\ idCounter = 0
  /\ files = <<>>
  /\ out = NoElement
  /\ project = <<>>
  /\ tex = NoTex
  /\ prev = <<>>

\* A caller invokes loadFromFile(file).
CallLoadFromFile ==
  /\ Len(tex.callers) < MaxCallers
  /\ \E filename \in TextureFiles : tex' = startLoad(tex, filename)
  /\ UNCHANGED <<pc, input, heap, idCounter, files, out, project, prev>>

\* The promise of loadTextureFile settles.
SettleLoad ==
  /\ \E p \in 1 .. Len(tex.promises) :
       /\ tex.promises[p].state = "pending"
       /\ IF extension(tex.promises[p].source) = "tga"
            THEN tex' = [tex EXCEPT !.promises[p] =
                           loadTga(tex.promises[p].source,
                                   decodeTgaCustom(input.bytes))]
            ELSE \E loads \in BOOLEAN :
                   tex' = [tex EXCEPT !.promises[p] =
                             loadStandardImage(tex.promises[p].source, loads)]
  /\ UNCHANGED <<pc, input, heap, idCounter, files, out, project, prev>>

\* The call that started the load continues after await loadPromise.
ResumeLoad ==
  /\ \E c \in 1 .. Len(tex.callers) :
       /\ tex.callers[c].at = "awaiting"
       /\ tex.promises[tex.callers[c].promise].state # "pending"
       /\ tex' = resumeLoad(tex, c, tex.promises[tex.callers[c].promise])
  /\ UNCHANGED <<pc, input, heap, idCounter, files, out, project, prev>>

\* A call that returned the promise of a load in flight settles with it.
FollowLoad ==
  /\ \E c \in 1 .. Len(tex.callers) :
       /\ tex.callers[c].at = "returned"
       /\ tex.promises[tex.callers[c].promise].state # "pending"
       /\ tex' = [tex EXCEPT !.callers[c].at = "done",
                             !.callers[c].result =
                               tex.promises[tex.callers[c].promise]]
  /\ UNCHANGED <<pc, input, heap, idCounter, files, out, project, prev>>

NextTex == CallLoadFromFile \/ SettleLoad \/ ResumeLoad \/ FollowLoad

SpecTex == InitTex /\ [][NextTex]_vars

(***************************************************************************)
(* Scenario "texture cache": up to MaxLoads loadFromFile calls for a.tga   *)
(* and a.png, which share the texture name a, run concurrently; a.tga is   *)
(* a file that decodes or one that does not.  With clear() and remove(),   *)
(* prev holds the last of them that ran since the last loadFromFile call.  *)
(***************************************************************************)
CacheInputs ==
  {tgaHeader(2, 1, 1, 24, 0) \o <<10, 20, 30>>,
   tgaHeader(9, 1, 1, 24, 0) \o <<10, 20, 30>>}

InitCache ==
  /\ pc = "run"
  /\ input \in [bytes : CacheInputs]
  /\ heap = <<>>
  /\ idCounter = 0
  /\ files = <<>>
  /\ out = NoElement
  /\ project = <<>>
  /\ tex = NoTex
  /\ prev = <<>>

\* A caller invokes loadFromFile(file).
LoadCall ==
  /\ Len(tex.callers) < MaxLoads
  /\ \E filename \in TextureFiles : tex' = startLoad(tex, filename)
  /\ prev' = <<>>
  /\ UNCHANGED <<pc, input, heap, idCounter, files, out, project>>

\* clear(): this.textures.clear()
Clear ==
  /\ tex' = [tex EXCEPT !.textures = EmptyMap]
  /\ prev' = <<[op |-> "clear", name |-> ""]>>
  /\ UNCHANGED <<pc, input, heap, idCounter, files, out, project>>

\* remove(name): this.textures.delete(name)
Remove ==
  /\ \E name \in {"a"} :
       /\ tex' = [tex EXCEPT !.textures = MapRemove(@, name)]
       /\ prev' = <<[op |-> "remove", name |-> name]>>
  /\ UNCHANGED <<pc, input, heap, idCounter, files, out, project>>

NextRace == LoadCall \/ SettleLoad \/ ResumeLoad \/ FollowLoad

SpecRace == InitCache /\ [][NextRace]_vars

NextCache == NextRace \/ Clear \/ Remove

SpecCache == InitCache /\ [][NextCache]_vars

(***************************************************************************)
(* decodeTgaCustom on its own: input is a generated file, out the result.  *)
(* A file is header, id field, colour map, pixel data and then either      *)
(* nothing, one more byte, or one byte less.                               *)
(***************************************************************************)
\* Lead bytes: a raw packet of 1 pixel, one of 2, a run of 3.
Leads == {0, 1, 130}

\* imageType and bitsPerPixel of the generated files.
PixelFormats ==
  {<<3, 8>>, <<2, 24>>, <<2, 32>>, <<2, 16>>,
   <<11, 8>>, <<10, 24>>, <<10, 32>>, <<10, 16>>}

\* id field and colour map: none; a 1-byte id and one 8-bit entry; one
\* 4-bit entry, for which colorMapLength * (colorMapDepth / 8) is 0.5.
SkipFields ==
  {[idLength |-> 0, colorMapType |-> 0, colorMapLength |-> 0, colorMapDepth |-> 0],
   [idLength |-> 1, colorMapType |-> 1, colorMapLength |-> 1, colorMapDepth |-> 8],
   [idLength |-> 0, colorMapType |-> 1, colorMapLength |-> 1, colorMapDepth |-> 4]}

TgaHeads ==
  {[imageType |-> f[1], bitsPerPixel |-> f[2], width |-> w, height |-> h,
    descriptor |-> d, skip |-> s] :
     f \in PixelFormats, w \in 1 .. MaxWidth, h \in 1 .. MaxHeight,
     d \in {0, 32}, s \in SkipFields}

Variants == {"exact", "trailing", "cut"}

\* len data bytes, each different from the others of the file.
ramp(pos, len) == [k \in 1 .. len |-> 10 + pos + k]

\* The packets with the given lead bytes, bpb bytes to a pixel.
RECURSIVE encodePackets(_, _, _)
packetBody(lead, bpb) == IF lead >= 128 THEN bpb ELSE ((lead % 128) + 1) * bpb
encodePackets(leads, bpb, pos) ==
  IF leads = <<>> THEN <<>>
  ELSE <<Head(leads)>> \o ramp(pos + 1, packetBody(Head(leads), bpb))
       \o encodePackets(Tail(leads), bpb, pos + 1 + packetBody(Head(leads), bpb))

payloadOf(head, leads) ==
  IF head.imageType \in {2, 3}
    THEN ramp(0, head.width * head.height * (head.bitsPerPixel \div 8))
    ELSE encodePackets(leads, head.bitsPerPixel \div 8, 0)

skipBytes(s) ==
  [k \in 1 .. s.idLength |-> 7]
  \o [k \in 1 .. (s.colorMapLength * s.colorMapDepth + 7) \div 8 |-> 9]

headerBytes(head) ==
  <<head.skip.idLength, head.skip.colorMapType, head.imageType, 0, 0,
    head.skip.colorMapLength % 256, head.skip.colorMapLength \div 256,
    head.skip.colorMapDepth, 0, 0, 0, 0,
    head.width % 256, head.width \div 256, head.height % 256,
    head.height \div 256, head.bitsPerPixel, head.descriptor>>

withVariant(bytes, variant) ==
  IF variant = "trailing" THEN Append(bytes, 130)
  ELSE IF variant = "cut" THEN SubSeq(bytes, 1, Len(bytes) - 1)
  ELSE bytes

tgaBytes(head, leads, variant) ==
  withVariant(headerBytes(head) \o skipBytes(head.skip) \o payloadOf(head, leads),
              variant)

LeadLists == SeqsUpTo(Leads, MaxPackets)

leadsFor(head) == IF head.imageType \in {2, 3} THEN {<<>>} ELSE LeadLists

tgaInput(head, leads, variant) ==
  [head |-> head, leads |-> leads, variant |-> variant,
   payload |-> payloadOf(head, leads), bytes |-> tgaBytes(head, leads, variant)]

InitTga ==
  /\ pc = "tga"
  /\ \E head \in TgaHeads, v \in Variants :
       \E leads \in leadsFor(head) : input = tgaInput(head, leads, v)
  /\ heap = <<>>
  /\ idCounter = 0
  /\ files = <<>>
  /\ out = NoElement
  /\ project = <<>>
  /\ tex = NoTex
  /\ prev = <<>>

\* const decoded = decodeTgaCustom(uint8Array)
DecodeTga ==
  /\ pc = "tga"
  /\ pc' = "decoded"
  /\ out' = decodeTgaCustom(input.bytes)
  /\ UNCHANGED <<input, heap, idCounter, files, project, tex, prev>>

NextTga == DecodeTga

SpecTga == InitTga /\ [][NextTga]_vars

(***************************************************************************)
(* The same call with the while loop of the RLE branch taken one packet at *)
(* a time; out holds the locals pixels and offset while the loop runs.     *)
(***************************************************************************)
\* Files of at least 18 bytes, of the greatest width and height, stored
\* bottom-up, complete or cut short, with no colour map or one of half a
\* byte; packets of one raw pixel and runs of three.
InitDecode ==
  /\ pc = "tga"
  /\ \E f \in PixelFormats, v \in {"exact", "cut"},
        s \in {k \in SkipFields : k.idLength = 0} :
       \E leads \in {l \in leadsFor([imageType |-> f[1]]) :
                       \A k \in 1 .. Len(l) : l[k] \in {0, 130}} :
         /\ input = tgaInput([imageType |-> f[1], bitsPerPixel |-> f[2],
                              width |-> MaxWidth, height |-> MaxHeight,
                              descriptor |-> 0, skip |-> s], leads, v)
         /\ Len(input.bytes) >= 18
  /\ heap = <<>>
  /\ idCounter = 0
  /\ files = <<>>
  /\ out = NoElement
  /\ project = <<>>
  /\ tex = NoTex
  /\ prev = <<>>

\* Types 2 and 3: the for loop over width * height pixels, then the return.
DecodeFlat ==
  /\ pc = "tga"
  /\ input.head.imageType \in {2, 3}
  /\ out' = decodeTgaCustom(input.bytes)
  /\ pc' = "decoded"
  /\ UNCHANGED <<input, heap, idCounter, files, project, tex, prev>>

\* Types 10 and 11: let pixelIndex = 0, offset after the header.
EnterRle ==
  /\ pc = "tga"
  /\ input.head.imageType \in {10, 11}
  /\ out' = [pixels |-> <<>>, off8 |-> pixelOffset(header(input.bytes))]
  /\ pc' = "rle"
  /\ UNCHANGED <<input, heap, idCounter, files, project, tex, prev>>

\* One turn of while (pixelIndex < width * height).
RlePacket ==
  /\ pc = "rle"
  /\ Len(out.pixels) < input.head.width * input.head.height
  /\ out' = readPacket(input.bytes, out,
                       pixelKind(input.head.imageType, input.head.bitsPerPixel),
                       input.head.width * input.head.height,
                       byteAt(input.bytes, out.off8))
  /\ UNCHANGED <<pc, input, heap, idCounter, files, project, tex, prev>>

\* The loop ends: flip and return.
LeaveRle ==
  /\ pc = "rle"
  /\ Len(out.pixels) >= input.head.width * input.head.height
  /\ out' = returned(header(input.bytes), out)
  /\ pc' = "decoded"
  /\ UNCHANGED <<input, heap, idCounter, files, project, tex, prev>>

NextDecode == DecodeFlat \/ EnterRle \/ RlePacket \/ LeaveRle

SpecDecode == InitDecode /\ [][NextDecode]_vars

SpecDecodeLive == SpecDecode /\ WF_vars(NextDecode)

\* A header with zero width, zero height or an image type other than 2, 3,
\* 10, 11.
badHeader(data) ==
  /\ Len(data) >= 18
  /\ \/ data[13] + 256 * data[14] = 0
     \/ data[15] + 256 * data[16] = 0
     \/ data[3] \notin {2, 3, 10, 11}

decodesFile(c, filename) ==
  /\ tex.callers[c].promise # 0
  /\ tex.promises[tex.callers[c].promise].source = filename

\* C10: for a header with zero width or height or an unsupported image
\* type decodeTgaCustom throws and returns no buffer; every loadFromFile
\* call that ran or joined the load of that file is rejected, no texture
\* made from the file reaches a caller, and none is cached.
C10_DecodeErrorRejects ==
  badHeader(input.bytes) =>
    /\ ~decodeTgaCustom(input.bytes).ok
    /\ decodeTgaCustom(input.bytes).data = <<>>
    /\ \A p \in 1 .. Len(tex.promises) :
         tex.promises[p].source = "a.tga" => tex.promises[p].state # "fulfilled"
    /\ \A c \in 1 .. Len(tex.callers) :
         /\ tex.callers[c].at = "done" /\ decodesFile(c, "a.tga") =>
              tex.callers[c].result.state = "rejected"
         /\ tex.callers[c].result.state = "fulfilled" =>
              tex.callers[c].result.filename # "a.tga"
    /\ \A n \in DOMAIN tex.textures : tex.textures[n].filename # "a.tga"

C10_Witness ==
  /\ badHeader(input.bytes)
  /\ input.bytes[3] = 9
  /\ Len(tex.callers) = 2
  /\ \A c \in 1 .. 2 :
       /\ tex.callers[c].at = "done"
       /\ decodesFile(c, "a.tga")
       /\ tex.callers[c].result.error = "Unsupported TGA image type"
  /\ tex.textures = EmptyMap
  /\ tex.loading = EmptyMap

(***************************************************************************)
(* Statements about resolvePiecesReferences (SpecResolve).  parsedHeap is  *)
(* the heap the resolver started from, resolvedHeap the heap it left.      *)
(***************************************************************************)
parsedHeap == prev[1]
resolvedHeap == IF pc = "mutated" THEN prev[2] ELSE heap

\* The pieces of all documents' trees, and the names some document defines.
allPieces(h) == collectPieces(h, screensOf(files))
definedNames == UNION {DOMAIN files[i].itemRegistry : i \in 1 .. Len(files)}

\* The node a pending entry belongs to (a top-level piece and its wrapper
\* have one id and one children list).
nodeWithId(id) ==
  CHOOSE a \in 1 .. Len(parsedHeap) :
    parsedHeap[a].kind = "piece" /\ parsedHeap[a].id = id

pendingEntries ==
  UNION {{files[i].unresolvedPieces[j] : j \in 1 .. Len(files[i].unresolvedPieces)} :
         i \in 1 .. Len(files)}

knownNames(e) == SelectSeq(e.names, LAMBDA n : n \in definedNames)

\* The children the resolver added to the node of entry e.
addedKids(e) ==
  SubSeq(kidsOf(resolvedHeap, nodeWithId(e.id)),
         Len(kidsOf(parsedHeap, nodeWithId(e.id))) + 1,
         Len(kidsOf(resolvedHeap, nodeWithId(e.id))))

\* The clones made for name n, and the node registered under n that the
\* resolver copies.
clonesFor(e, n) ==
  {addedKids(e)[k] : k \in {j \in 1 .. Len(addedKids(e)) :
                              j <= Len(knownNames(e)) /\ knownNames(e)[j] = n}}
clonesOf(n) == UNION {clonesFor(e, n) : e \in pendingEntries}
sourceOf(n) == mergeRegistries(ordered, 1, EmptyMap)[n]

RECURSIVE subtree(_, _)
subtree(h, a) ==
  {a} \cup UNION {subtree(h, kidsOf(h, a)[k]) : k \in 1 .. Len(kidsOf(h, a))}

idsIn(h, a) == {h[b].id : b \in subtree(h, a)}

\* C2: a clone that the resolver attaches carries new internal ids on its
\* root and on each of its descendants: none equals an id of the source
\* subtree, and the ids of all nodes of all documents' trees are pairwise
\* distinct after resolution.
C2_CloneIdsFresh ==
  pc = "resolved" =>
    /\ \A n \in definedNames : \A c \in clonesOf(n) :
         idsIn(heap, c) \cap idsIn(heap, sourceOf(n)) = {}
    /\ \A i, j \in 1 .. Len(allPieces(heap)) :
         i # j => heap[allPieces(heap)[i]].id # heap[allPieces(heap)[j]].id

\* The objects that make up the tree at a, and the tree as a value.
ownCells(h, a) ==
  {a, h[a].location, h[a].size, h[a].style, h[a].children}
  \cup (IF h[a].textColor # 0 THEN {h[a].textColor} ELSE {})
treeCells(h, a) == UNION {ownCells(h, b) : b \in subtree(h, a)}

RECURSIVE treeValue(_, _)
treeValue(h, a) ==
  [node |-> h[a], location |-> h[h[a].location], size |-> h[h[a].size],
   style |-> h[h[a].style],
   textColor |-> IF h[a].textColor # 0 THEN <<h[h[a].textColor]>> ELSE <<>>,
   kids |-> [k \in 1 .. Len(kidsOf(h, a)) |-> treeValue(h, kidsOf(h, a)[k])]]

\* The objects the last edit wrote to.
edited == {x \in 1 .. Len(prev[2]) : heap[x] # prev[2][x]}
instancesOf(n) == {sourceOf(n)} \cup clonesOf(n)

\* C3: an edit of one instance of a fragment (the source or a clone of it),
\* at any depth, leaves every other instance of the fragment as it was.
C3_ClonesIndependent ==
  pc = "mutated" =>
    \A n \in definedNames : \A I, J \in instancesOf(n) :
      I # J /\ edited \cap treeCells(prev[2], I) # {} =>
        treeValue(heap, J) = treeValue(prev[2], J)

C3_Witness ==
  /\ pc = "mutated"
  /\ Cardinality(clonesOf("F")) = 2
  /\ \E c \in clonesOf("F") : \E k \in subtree(prev[2], c) :
       /\ k # c
       /\ edited = {prev[2][k].location}
       /\ heap[prev[2][k].location].x = 99

\* C5: every node with a pending list gets, after its parse-time children,
\* one clone per listed name that some document defines, in list order;
\* a name no document defines adds nothing, and no error is recorded.
C5_OneClonePerKnownName ==
  pc = "resolved" =>
    /\ \A e \in pendingEntries :
         /\ SubSeq(kidsOf(heap, nodeWithId(e.id)), 1,
                   Len(kidsOf(parsedHeap, nodeWithId(e.id))))
              = kidsOf(parsedHeap, nodeWithId(e.id))
         /\ Len(addedKids(e)) = Len(knownNames(e))
         /\ \A k \in 1 .. Len(addedKids(e)) :
              /\ addedKids(e)[k] > Len(parsedHeap)
              /\ \E i \in 1 .. Len(files) :
                   /\ knownNames(e)[k] \in DOMAIN files[i].itemRegistry
                   /\ sameNode(heap, addedKids(e)[k],
                               files[i].itemRegistry[knownNames(e)[k]])
    /\ \A i \in 1 .. Len(files) : files[i].errors = <<>>

C5_Witness ==
  /\ pc = "resolved"
  /\ \E e \in pendingEntries :
       /\ e.names = <<"Nope", "G">>
       /\ Len(kidsOf(heap, nodeWithId(e.id))) = 2
       /\ heap[kidsOf(heap, nodeWithId(e.id))[1]].screenId = "PK"
       /\ heap[kidsOf(heap, nodeWithId(e.id))[2]].item = "G"

\* The names both documents register.
collidingNames == DOMAIN files[1].itemRegistry \cap DOMAIN files[2].itemRegistry
laterFile == files[input.order[2]]

\* C6: when both documents register a name, every clone made for that name,
\* under a node of either document, is a copy of the node that the later
\* document in input order registers.
C6_LaterDocumentWins ==
  pc = "resolved" =>
    \A e \in pendingEntries :
      /\ Len(addedKids(e)) = Len(knownNames(e))
      /\ \A k \in 1 .. Len(addedKids(e)) :
           knownNames(e)[k] \in collidingNames =>
             sameTree(heap, addedKids(e)[k],
                      laterFile.itemRegistry[knownNames(e)[k]])

C6_Witness ==
  /\ pc = "resolved"
  /\ input.order = <<1, 2>>
  /\ "F" \in collidingNames
  /\ \E e \in pendingEntries :
       /\ heap[nodeWithId(e.id)].screenId = "XA"
       /\ Len(addedKids(e)) = 1
       /\ heap[addedKids(e)[1]].screenId = "FB"

(***************************************************************************)
(* Statements about parseEquiFile and the factories (SpecDoc).             *)
(***************************************************************************)
topLevel == input.doc.root.kids

errorsFor(doc, idx) ==
  [k \in 1 .. Len(idx) |-> [message |-> "Error parsing",
                             element |-> doc.root.kids[idx[k]].tag]]

thrownAt(doc) ==
  SelectSeq([i \in 1 .. Len(doc.root.kids) |-> i], LAMBDA i : i \in doc.throwAt)

\* C7: parseEquiFile returns for every input; text that is not XML gives an
\* empty root list, template library, item registry and pending map with
\* exactly one error; an exception at a top-level element gives one error
\* naming that element, and every other top-level element is still parsed.
C7_ParseNeverThrows ==
  /\ pc = "start" =>
       DOMAIN parsedFile("EQUI_A.xml", parseEquiFile(input.doc, heap, idCounter))
         = {"filename", "screens", "templates", "errors", "includes",
            "itemRegistry", "unresolvedPieces"}
  /\ pc = "parsed" /\ hasParserError(input.doc) =>
       /\ files[1].screens = <<>>
       /\ files[1].templates = createTemplateLibrary
       /\ files[1].itemRegistry = EmptyMap
       /\ files[1].unresolvedPieces = <<>>
       /\ Len(files[1].errors) = 1
  /\ pc = "parsed" /\ ~hasParserError(input.doc) /\ files[1].includes = <<>> =>
       /\ files[1].errors = errorsFor(input.doc, thrownAt(input.doc))
       /\ \A i \in 1 .. Len(topLevel) :
            i \notin input.doc.throwAt /\ topLevel[i].tag \in RootTags =>
              \E k \in 1 .. Len(files[1].screens) :
                heap[files[1].screens[k]].screenId
                  = getChildText(topLevel[i], "ScreenID")

C7_Witness ==
  /\ pc = "parsed"
  /\ input.doc.throwAt = {1}
  /\ Len(files[1].errors) = 1
  /\ Len(files[1].screens) = 1
  /\ heap[files[1].screens[1]].screenId = "BtnB"

includeTexts(doc) ==
  [k \in 1 .. Len(doc.root.kids[1].kids) |-> doc.root.kids[1].kids[k].text]

onlyIncludeList(doc) ==
  /\ ~doc.malformed
  /\ Len(doc.root.kids) = 1
  /\ doc.root.kids[1].tag = "Composite"
  /\ \E k \in 1 .. Len(doc.root.kids[1].kids) :
       /\ doc.root.kids[1].kids[k].tag = "Include"
       /\ doc.root.kids[1].kids[k].text \notin {"", " ", "  "}

\* C8: a document whose only content is a Composite with at least one
\* non-empty Include parses to a result whose includes are the non-empty
\* Include texts in document order and whose root list, item registry and
\* pending map are empty; isManifestFile is true exactly for the results
\* with a non-empty includes list.
C8_ManifestOnly ==
  pc = "parsed" =>
    /\ onlyIncludeList(input.doc) =>
         /\ files[1].includes
              = SelectSeq(includeTexts(input.doc),
                          LAMBDA s : s \notin {"", " ", "  "})
         /\ files[1].includes # <<>>
         /\ files[1].screens = <<>>
         /\ files[1].itemRegistry = EmptyMap
         /\ files[1].unresolvedPieces = <<>>
    /\ isManifestFile(files[1]) <=> Len(files[1].includes) > 0

C8_Witness ==
  /\ pc = "parsed"
  /\ onlyIncludeList(input.doc)
  /\ files[1].includes = <<"EQUI_B.xml", "EQUI_A.xml">>
  /\ isManifestFile(files[1])

RECURSIVE elementsOf(_)
elementsOf(e) ==
  {e} \cup UNION {elementsOf(e.kids[k]) : k \in 1 .. Len(e.kids)}

tagsOf(e) == {e.kids[k].tag : k \in 1 .. Len(e.kids)}

SuppressedTags ==
  {"Location", "RelativePosition", "AutoStretch", "TopAnchorToTop",
   "BottomAnchorToTop", "LeftAnchorToLeft", "RightAnchorToLeft", "TopOffset",
   "BottomOffset", "LeftOffset", "RightOffset", "Style_Transparent",
   "Style_Border", "Style_Titlebar", "Style_Closebox", "Style_Minimizebox",
   "Style_Tilebox", "Style_Sizable", "Style_EscapeClose", "Style_VScroll",
   "Style_HScroll"}

\* The elements of the output that stand for nodes.
nodeElements(e) == {n \in elementsOf(e) : "ScreenID" \in tagsOf(n)}

\* C9: the serialized text of a node that a factory has just created has no
\* Location, RelativePosition, AutoStretch, anchor, anchor-offset or Style_
\* tag; the only geometry tag is Size.
C9_DefaultsSuppressed ==
  pc = "exported" =>
    /\ nodeElements(out) # {}
    /\ \A n \in nodeElements(out) :
         /\ tagsOf(n) \cap SuppressedTags = {}
         /\ "Size" \in tagsOf(n)

C9_Witness ==
  /\ pc = "exported"
  /\ Cardinality(nodeElements(out)) = 2
  /\ \E n \in nodeElements(out) :
       \E k \in 1 .. Len(n.kids) :
         n.kids[k] = El("Size", "", <<Leaf("CX", "400"), Leaf("CY", "300")>>)

(***************************************************************************)
(* What a generated image file holds, read as the format lays it out.      *)
(***************************************************************************)
\* The pixel <<r, g, b, a>> of a 1-, 3- or 4-byte sample.
rgba(sample) ==
  IF Len(sample) = 1 THEN <<sample[1], sample[1], sample[1], 255>>
  ELSE IF Len(sample) = 3 THEN <<sample[3], sample[2], sample[1], 255>>
  ELSE <<sample[3], sample[2], sample[1], sample[4]>>

sampleAt(payload, pos, bpb) == SubSeq(payload, pos + 1, pos + bpb)

leadCount(lead) == (lead % 128) + 1

\* The pixels that the packets starting at payload offset pos stand for.
RECURSIVE expansion(_, _, _, _)
expansion(leads, payload, bpb, pos) ==
  IF leads = <<>> THEN <<>>
  ELSE [j \in 1 .. leadCount(Head(leads)) |->
          IF Head(leads) >= 128 THEN rgba(sampleAt(payload, pos + 1, bpb))
          ELSE rgba(sampleAt(payload, pos + 1 + (j - 1) * bpb, bpb))]
       \o expansion(Tail(leads), payload, bpb,
                    pos + 1 + packetBody(Head(leads), bpb))

\* The bytes of the packets that are needed for the first need pixels.
RECURSIVE consumed(_, _, _)
consumed(leads, bpb, need) ==
  IF need <= 0 \/ leads = <<>> THEN 0
  ELSE (IF Head(leads) >= 128 THEN 1 + bpb
        ELSE 1 + min(leadCount(Head(leads)), need) * bpb)
       + consumed(Tail(leads), bpb, need - leadCount(Head(leads)))

pixelCount(f) == f.head.width * f.head.height
sampleBytes(f) == f.head.bitsPerPixel \div 8
expanded(f) == expansion(f.leads, f.payload, sampleBytes(f), 0)
needed(f) == consumed(f.leads, sampleBytes(f), pixelCount(f))
present(f) == Len(f.payload) - (IF f.variant = "cut" THEN 1 ELSE 0)
dataStart(f) == 18 + Len(skipBytes(f.head.skip))
aligned(f) == (f.head.skip.colorMapLength * f.head.skip.colorMapDepth) % 8 = 0

\* An RLE file of 8, 24 or 32 bits per pixel whose packets hold at least
\* width * height pixels, the bytes they need being in the file.
rleCase(f) ==
  /\ f.head.imageType \in {10, 11}
  /\ f.head.bitsPerPixel \in {8, 24, 32}
  /\ aligned(f)
  /\ Len(expanded(f)) >= pixelCount(f)
  /\ needed(f) <= present(f)

\* C11: a run packet repeats one pixel (low 7 bits + 1) times and a raw
\* packet copies (low 7 bits + 1) pixels; exactly width * height pixels are
\* stored, a packet that would run past that count is cut short, and no byte
\* after the last needed one is read.
C11_RlePackets ==
  pc = "decoded" /\ input.head.imageType \in {10, 11} =>
    /\ out.ok
    /\ Len(out.pixels) = pixelCount(input)
    /\ Len(out.data) = pixelCount(input)
    /\ rleCase(input) =>
         /\ out.pixels = SubSeq(expanded(input), 1, pixelCount(input))
         /\ out.off8 = 8 * (dataStart(input) + needed(input))
         /\ out = decodeTgaCustom(SubSeq(input.bytes, 1,
                                         dataStart(input) + needed(input)))

C11_Witness ==
  /\ pc = "decoded"
  /\ rleCase(input)
  /\ input.leads = <<1, 130>>
  /\ input.head.bitsPerPixel = 32
  /\ pixelCount(input) = 4
  /\ input.variant = "trailing"
  /\ out.pixels = <<<<14, 13, 12, 15>>, <<18, 17, 16, 19>>,
                    <<23, 22, 21, 24>>, <<23, 22, 21, 24>>>>
  /\ out.off8 = 8 * (18 + 14)

\* An uncompressed file of 8, 24 or 32 bits per pixel with all its samples.
rawCase(f) ==
  /\ f.head.imageType \in {2, 3}
  /\ f.head.bitsPerPixel \in {8, 24, 32}
  /\ aligned(f)
  /\ f.variant # "cut"

\* C12: for an uncompressed image, stored pixel i (before the rows are put
\* in order) is (g, g, g, 255) for the i-th 1-byte sample, (R, G, B, 255) for
\* the i-th B,G,R triple and (R, G, B, A) for the i-th B,G,R,A quad, the
\* samples being read one after the other from the first byte after the
\* header, the id field and the colour map.
C12_UncompressedPixels ==
  pc = "decoded" /\ rawCase(input) =>
    /\ out.ok
    /\ out.width = input.head.width /\ out.height = input.head.height
    /\ Len(out.pixels) = pixelCount(input)
    /\ \A i \in 1 .. pixelCount(input) :
         out.pixels[i] =
           rgba(SubSeq(input.bytes,
                       dataStart(input) + (i - 1) * sampleBytes(input) + 1,
                       dataStart(input) + i * sampleBytes(input)))
    /\ out.off8 = 8 * (dataStart(input) + pixelCount(input) * sampleBytes(input))

C12_Witness ==
  /\ pc = "decoded"
  /\ rawCase(input)
  /\ input.head.imageType = 2
  /\ input.head.bitsPerPixel = 24
  /\ input.head.width = 2 /\ input.head.height = 1
  /\ input.head.skip.idLength = 1
  /\ out.pixels = <<<<13, 12, 11, 255>>, <<16, 15, 14, 255>>>>

\* Row r (from 1) of a pixel buffer of the given width.
rowAt(pixels, width, r) == SubSeq(pixels, (r - 1) * width + 1, r * width)

\* How often each row occurs in a buffer.
rowBag(pixels, width, height) ==
  [row \in {rowAt(pixels, width, r) : r \in 1 .. height} |->
     Cardinality({r \in 1 .. height : rowAt(pixels, width, r) = row})]

originBit(f) == (f.head.descriptor \div 32) % 2 = 1

\* C13: with the origin bit (0x20) of the descriptor clear, row r of the
\* returned buffer is stored row height-1-r, the middle row of an odd height
\* staying where it is; with the bit set the rows come back in stored order;
\* either way width, height and the multiset of rows are the stored ones.
C13_RowOrder ==
  pc = "decoded" /\ Len(input.bytes) >= 18 =>
    /\ out.ok
    /\ out.width = input.head.width /\ out.height = input.head.height
    /\ Len(out.data) = Len(out.pixels)
    /\ rowBag(out.data, out.width, out.height)
         = rowBag(out.pixels, out.width, out.height)
    /\ originBit(input) => out.data = out.pixels
    /\ ~originBit(input) =>
         \A r \in 1 .. out.height :
           rowAt(out.data, out.width, r)
             = rowAt(out.pixels, out.width, out.height + 1 - r)

C13_Witness ==
  /\ pc = "decoded"
  /\ ~originBit(input)
  /\ out.width = 2 /\ out.height = 3
  /\ rowAt(out.data, 2, 2) = rowAt(out.pixels, 2, 2)
  /\ rowAt(out.data, 2, 1) = rowAt(out.pixels, 2, 3)
  /\ rowAt(out.data, 2, 3) = rowAt(out.pixels, 2, 1)
  /\ Cardinality({rowAt(out.pixels, 2, r) : r \in 1 .. 3}) = 3

(***************************************************************************)
(* The SIDL schema.  input.schema is what parseSidl returns, input.call the *)
(* call made on it; out holds the locals of the running call (currentType, *)
(* properties) and, once pc = "returned", its result.  One action is one   *)
(* turn of the while loop, so that a walk that never ends is a behaviour.  *)
(***************************************************************************)
TypeNames == {"A", "B", "C"}

\* The element (property) names declared by each type.
DeclaredProperties == [A |-> <<"a1", "a2">>, B |-> <<"b">>, C |-> <<"c">>]

\* The text of each type's superType node; "" when there is none, "X" a type
\* that is not declared.
SuperTypes == {"", "A", "B", "C", "X"}

\* parseSidl for a document that declares the three types once each.
parseSidl(supers) ==
  [elementTypes |->
     [n \in TypeNames |->
        [name |-> n, superType |-> supers[n], properties |-> DeclaredProperties[n]]],
   inheritanceMap |-> [n \in {m \in TypeNames : supers[m] # ""} |-> supers[n]]]

SidlCalls ==
  {[fn |-> "getInheritedProperties", typeName |-> n, parentTypeName |-> ""] :
     n \in TypeNames \cup {"X"}}
  \cup {[fn |-> "inheritsFrom", typeName |-> n, parentTypeName |-> a] :
          n \in TypeNames \cup {"X"}, a \in TypeNames \cup {"X"}}

InitSidl ==
  /\ pc = "call"
  /\ \E supers \in [TypeNames -> SuperTypes], call \in SidlCalls :
       input = [schema |-> parseSidl(supers), call |-> call]
  /\ heap = <<>>
  /\ idCounter = 0
  /\ files = <<>>
  /\ out = NoElement
  /\ project = <<>>
  /\ tex = NoTex
  /\ prev = <<>>

\* The array keeps growing on a cyclic chain; the model keeps its first
\* MaxAccum entries.
saturate(properties) ==
  IF Len(properties) > MaxAccum THEN SubSeq(properties, 1, MaxAccum) ELSE properties

\* properties.push(...definition.properties) in place of unshift.
pushProperties(properties, definition) ==
  saturate(properties \o definition.properties)

\* properties.unshift(...definition.properties)
unshiftProperties(properties, definition) ==
  saturate(definition.properties \o properties)

\* turn is the parity of the loop turns taken, so that a turn which leaves
\* currentType and properties as they were is still a step of the walk.
locals(fn, currentType, properties) ==
  [fn |-> fn, currentType |-> currentType, properties |-> properties,
   turn |-> 0, result |-> <<>>]

\* const properties = []; let currentType = typeName
CallGetInheritedProperties ==
  /\ pc = "call"
  /\ input.call.fn = "getInheritedProperties"
  /\ pc' = "walk"
  /\ out' = locals("getInheritedProperties", input.call.typeName, <<>>)
  /\ UNCHANGED <<input, heap, idCounter, files, project, tex, prev>>

\* One turn of the loop with a definition found for currentType.
WalkSuperType ==
  /\ pc = "walk"
  /\ out.fn = "getInheritedProperties"
  /\ out.currentType # ""
  /\ out.currentType \in DOMAIN input.schema.elementTypes
  /\ out' = [out EXCEPT
               !.properties =
                 unshiftProperties(out.properties,
                                   input.schema.elementTypes[out.currentType]),
               !.currentType =
                 input.schema.elementTypes[out.currentType].superType,
               !.turn = 1 - @]
  /\ UNCHANGED <<pc, input, heap, idCounter, files, project, tex, prev>>

\* The loop ends (currentType is '' or has no definition): return properties
ReturnProperties ==
  /\ pc = "walk"
  /\ out.fn = "getInheritedProperties"
  /\ \/ out.currentType = ""
     \/ out.currentType \notin DOMAIN input.schema.elementTypes
  /\ pc' = "returned"
  /\ out' = [out EXCEPT !.result = out.properties]
  /\ UNCHANGED <<input, heap, idCounter, files, project, tex, prev>>

\* let currentType = typeName
CallInheritsFrom ==
  /\ pc = "call"
  /\ input.call.fn = "inheritsFrom"
  /\ pc' = "walk"
  /\ out' = locals("inheritsFrom", input.call.typeName, <<>>)
  /\ UNCHANGED <<input, heap, idCounter, files, project, tex, prev>>

\* schema.inheritanceMap.get(currentType) || ''
parentOf(schema, currentType) ==
  IF currentType \in DOMAIN schema.inheritanceMap
    THEN schema.inheritanceMap[currentType] ELSE ""

\* One turn of the loop that does not return.
WalkParent ==
  /\ pc = "walk"
  /\ out.fn = "inheritsFrom"
  /\ out.currentType # ""
  /\ out.currentType # input.call.parentTypeName
  /\ out' = [out EXCEPT !.currentType = parentOf(input.schema, out.currentType),
                         !.turn = 1 - @]
  /\ UNCHANGED <<pc, input, heap, idCounter, files, project, tex, prev>>

\* return true inside the loop, return false after it.
ReturnInherits ==
  /\ pc = "walk"
  /\ out.fn = "inheritsFrom"
  /\ \/ out.currentType = ""
     \/ out.currentType = input.call.parentTypeName
  /\ pc' = "returned"
  /\ out' = [out EXCEPT !.result = (out.currentType # "")]
  /\ UNCHANGED <<input, heap, idCounter, files, project, tex, prev>>

NextSidl ==
  \/ CallGetInheritedProperties \/ WalkSuperType \/ ReturnProperties
  \/ CallInheritsFrom \/ WalkParent \/ ReturnInherits

SpecSidl == InitSidl /\ [][NextSidl]_vars

\* A call that has been made keeps running.
SpecSidlLive == SpecSidl /\ WF_vars(NextSidl)

\* C14: getInheritedProperties terminates for every schema, a cyclic
\* supertype chain included: a call that has started returns.
C14_PropertiesWalkReturns ==
  (pc = "walk" /\ out.fn = "getInheritedProperties") ~> (pc = "returned")

\* C15: inheritsFrom terminates for every schema: a call that has started
\* returns, with false when a cycle keeps it from reaching the ancestor.
C15_ParentWalkReturns ==
  (pc = "walk" /\ out.fn = "inheritsFrom") ~> (pc = "returned")

\* The chain in which A names B and B names C as superType, C naming none.
chainSchema == parseSidl([A |-> "B", B |-> "C", C |-> ""])

returnedFrom(fn, typeName, parentTypeName) ==
  /\ pc = "returned"
  /\ input.schema = chainSchema
  /\ input.call = [fn |-> fn, typeName |-> typeName,
                   parentTypeName |-> parentTypeName]

\* C16 as stated: on the chain A, B, C with C rootless,
\* getInheritedProperties(C) is C's own properties, getInheritedProperties(B)
\* is B's properties followed by A's, inheritsFrom(A, C) is false and
\* inheritsFrom(C, A) is true.
C16_ChainAsStated ==
  /\ returnedFrom("getInheritedProperties", "C", "") =>
       out.result = DeclaredProperties["C"]
  /\ returnedFrom("getInheritedProperties", "B", "") =>
       out.result = DeclaredProperties["B"] \o DeclaredProperties["A"]
  /\ returnedFrom("inheritsFrom", "A", "C") => out.result = FALSE
  /\ returnedFrom("inheritsFrom", "C", "A") => out.result = TRUE

\* C16 amended: on that chain getInheritedProperties(C) is C's own
\* properties, getInheritedProperties(B) is C's properties followed by B's
\* (and for A: C's, B's, A's), inheritsFrom(A, C) is true and
\* inheritsFrom(C, A) is false.
C16_ChainBaseFirst ==
  /\ returnedFrom("getInheritedProperties", "C", "") =>
       out.result = DeclaredProperties["C"]
  /\ returnedFrom("getInheritedProperties", "B", "") =>
       out.result = DeclaredProperties["C"] \o DeclaredProperties["B"]
  /\ returnedFrom("getInheritedProperties", "A", "") =>
       out.result = DeclaredProperties["C"] \o DeclaredProperties["B"]
                      \o DeclaredProperties["A"]
  /\ returnedFrom("inheritsFrom", "A", "C") => out.result = TRUE
  /\ returnedFrom("inheritsFrom", "C", "A") => out.result = FALSE

C16_Witness ==
  /\ returnedFrom("getInheritedProperties", "B", "")
  /\ out.result = <<"c", "b">>

(***************************************************************************)
(* Scenario "vocabulary": one document whose top-level nodes, properties   *)
(* and field texts range over the parser's tag sets is parsed.             *)
(***************************************************************************)
\* The child tags parseScreen and parseScreenPiece read on every node.
commonTagsRead ==
  {"ScreenID", "Location", "Size", "RelativePosition", "AutoStretch",
   "TopAnchorToTop", "BottomAnchorToTop", "LeftAnchorToLeft",
   "RightAnchorToLeft", "TopOffset", "BottomOffset", "LeftOffset",
   "RightOffset", "TextColor", "Font", "Text", "TooltipReference",
   "DrawTemplate", "Pieces",
   "Style_Transparent", "Style_Border", "Style_Titlebar", "Style_Closebox",
   "Style_Minimizebox", "Style_Tilebox", "Style_Sizable", "Style_EscapeClose",
   "Style_VScroll", "Style_HScroll"}

\* The child tags parseControlSpecificProps reads for a tag.
typeTagsRead(t) ==
  CASE t = "Gauge" -> {"GaugeDrawTemplate", "FillTint", "LinesFillTint", "Orientation"}
    [] t = "Button" ->
         {"ButtonDrawTemplate", "NormalTexture", "PressedTexture", "FlybyTexture",
          "DisabledTexture", "Checkbox", "Checked", "RadioGroup"}
    [] t = "Label" -> {"NoWrap", "AlignCenter", "AlignRight"}
    [] t = "Editbox" -> {"MaxChars", "Password", "Multiline", "AutoVScroll"}
    [] t = "InvSlot" -> {"InvSlot", "BagSlot"}
    [] t = "SpellGem" -> {"SpellSlot", "SpellGemDrawTemplate"}
    [] t = "HotButton" -> {"ButtonIndex"}
    [] t = "StaticAnimation" -> {"Animation"}
    [] t = "TileLayoutBox" ->
         {"Spacing", "SecondarySpacing", "HorizontalFirst", "AnchorToTop",
          "AnchorToLeft", "FirstPieceTemplate", "SnapToChildren"}
    [] t \in {"LayoutBox", "VerticalLayoutBox", "HorizontalLayoutBox"} ->
         {"Spacing", "AutoStretchHorizontal", "AutoStretchVertical"}
    [] t = "Page" -> {"TabText"}
    [] t = "Slider" ->
         {"SliderDrawTemplate", "Orientation", "MinValue", "MaxValue",
          "CurrentValue", "PageSize"}
    [] t = "StaticFrame" -> {"FrameTemplate"}
    [] t = "Grid" -> {"Rows", "Cols", "CellWidth", "CellHeight"}
    [] t = "Listbox" -> {"HeaderStyle", "Sort", "HighlightColor"}
    [] t = "TabBox" -> {"TabHeight"}
    [] t = "STMLbox" -> {"MaxLines"}
    [] t = "Combobox" -> {"Choices"}
    [] OTHER -> {}

\* The child tags the parser reads as properties of a node with tag t.
tagsRead(t) ==
  IF t = "Screen" THEN commonTagsRead \cup {"WindowDrawTemplate"}
  ELSE commonTagsRead \cup {"EQType"} \cup typeTagsRead(t)

\* Top-level tags: the two vocabularies, a property tag and an unknown tag.
TopTags == visualElementTags \cup templateTags \cup {"Item", "Weird"}

TopNodes ==
  {MkPiece(t, i, s, {}, <<>>) : t \in TopTags, i \in {"", "I"}, s \in {"", "S"}}

FixedWindow == MkPiece("Screen", "", "Win", {}, <<>>)

\* One node of the vocabulary alone, after or before a window.
TopDocs ==
  UNION {{Doc(<<n>>), Doc(<<FixedWindow, n>>), Doc(<<n, FixedWindow>>)} :
           n \in TopNodes}

\* A template record whose parts all carry the text v.
TemplateNode(tag, item, v) ==
  El(tag, item,
     <<Leaf("Filename", v), Leaf("Normal", v), Leaf("Background", v),
       Leaf("Top", v), El("Frame", "", <<Leaf("Texture", v)>>)>>)

TemplateDocs ==
  {Doc(<<TemplateNode(t, i, "x"), TemplateNode(t, j, "y")>>) :
     t \in templateTags, i \in {"", "I", "J"}, j \in {"", "I", "J"}}

PropertyNode(p) ==
  IF p \in {"Location", "Size"}
    THEN El(p, "", <<Leaf("X", "1"), Leaf("Y", "1"), Leaf("CX", "1"),
                     Leaf("CY", "1")>>)
  ELSE IF p \in {"TextColor", "FillTint", "LinesFillTint", "HighlightColor"}
    THEN El(p, "", <<Leaf("R", "1"), Leaf("G", "1"), Leaf("B", "1")>>)
  ELSE Leaf(p, "1")

\* A node with an identity and one more property that the parser reads.
PropertyDocs ==
  UNION {{Doc(<<El(t, "", <<Leaf("ScreenID", "S"), PropertyNode(p)>>)>>) :
            p \in tagsRead(t) \ {"ScreenID"}} :
           t \in visualElementTags}

\* Fields that are there but cannot be parsed; NoElement stands for none.
BadFields ==
  {NoElement,
   Leaf("TopOffset", "abc"), Leaf("Font", "abc"),
   Leaf("TopAnchorToTop", "maybe"), Leaf("BottomAnchorToTop", "maybe"),
   Leaf("Style_Border", "maybe"),
   El("Location", "", <<Leaf("X", "abc"), Leaf("Y", "4")>>),
   El("Size", "", <<Leaf("CX", "5")>>),
   El("TextColor", "", <<Leaf("R", "abc")>>)}

fieldKids(f) == IF f = NoElement THEN <<>> ELSE <<f>>

\* A window with one field and a nested Button with one field.
FieldDocs ==
  {Doc(<<El("Screen", "",
            <<Leaf("ScreenID", "Win")>> \o fieldKids(f)
            \o <<El("Button", "", <<Leaf("ScreenID", "Btn")>> \o fieldKids(g))>>)>>) :
     f \in BadFields, g \in BadFields}

InitTop ==
  /\ pc = "start"
  /\ input \in [doc : TopDocs \cup TemplateDocs \cup PropertyDocs \cup FieldDocs]
  /\ heap = <<>>
  /\ idCounter = 0
  /\ files = <<>>
  /\ out = NoElement
  /\ project = <<>>
  /\ tex = NoTex
  /\ prev = <<>>

NextTop == ParseDoc

SpecTop == InitTop /\ [][NextTop]_vars

hasIdentity(n) == \E k \in 1 .. Len(n.kids) : n.kids[k].tag = "ScreenID"

\* A top-level node that is a window, has a tag of the visual vocabulary or
\* has an identity child (template tags are handled before these).
isRootCandidate(n) ==
  /\ n.tag \notin templateTags
  /\ n.tag = "Screen" \/ n.tag \in visualElementTags \/ hasIdentity(n)

rootCandidates(doc) == SelectSeq(doc.root.kids, isRootCandidate)

\* C17: every top-level node that is the root window tag, has a tag of the
\* visual-element vocabulary or contains a ScreenID child yields exactly one
\* node of the document's root list, in document order, whatever the tag.
C17_VocabularyNodesBecomeRoots ==
  pc = "parsed" =>
    /\ Len(files[1].screens) = Len(rootCandidates(input.doc))
    /\ \A i \in 1 .. Len(files[1].screens) :
         heap[files[1].screens[i]].type = rootCandidates(input.doc)[i].tag

piecesOf(h) == {a \in 1 .. Len(h) : h[a].kind = "piece"}
childTypes(h, a) ==
  {h[h[h[a].children].elems[k]].type : k \in 1 .. Len(h[h[a].children].elems)}

\* C18: a tag that the parser reads as a property of a node (identity,
\* geometry, anchors, offsets, colour, font, text, style flags, template
\* references, per-type extras such as a Button's texture names and checkbox
\* flags) is in the known non-piece set, so no node has a child node made
\* from one of its own properties.
C18_PropertiesAreNotChildren ==
  pc = "parsed" =>
    \A a \in piecesOf(heap) :
      /\ tagsRead(heap[a].type) \subseteq knownNonPieces
      /\ childTypes(heap, a) \cap tagsRead(heap[a].type) = {}

\* The item names under which a template library holds a record.
libraryItems(lib) == UNION {DOMAIN lib[f] : f \in DOMAIN lib}

libraryRecords(lib, item) ==
  {lib[f][item] : f \in {g \in DOMAIN lib : item \in DOMAIN lib[g]}}

\* The record was made from a template node whose parts carry the text v.
madeFrom(rec, v) ==
  \/ "filename" \in DOMAIN rec /\ rec.filename = v
  \/ "frames" \in DOMAIN rec /\ rec.frames # <<>> /\ rec.frames[1].texture = v
  \/ "parts" \in DOMAIN rec /\ \E q \in DOMAIN rec.parts : rec.parts[q] = v

templateNodes(doc) ==
  {k \in 1 .. Len(doc.root.kids) : doc.root.kids[k].tag \in templateTags}

\* The last top-level node with the tag and item of node k.
lastLike(doc, k) ==
  CHOOSE m \in templateNodes(doc) :
    /\ doc.root.kids[m].tag = doc.root.kids[k].tag
    /\ doc.root.kids[m].item = doc.root.kids[k].item
    /\ \A j \in templateNodes(doc) :
         doc.root.kids[j].tag = doc.root.kids[k].tag
         /\ doc.root.kids[j].item = doc.root.kids[k].item => j <= m

carriesText(n) == n.kids # <<>> /\ n.kids[1].tag = "Filename"

\* C19: a top-level node with a template tag and an item attribute is in the
\* document's template library under that item name, a later record of the
\* same name replacing an earlier one; a template node without item is
\* dropped; and no template-tag node is in the root list.
C19_TemplatesEnterLibrary ==
  pc = "parsed" =>
    /\ \A k \in templateNodes(input.doc) :
         input.doc.root.kids[k].item # "" =>
           /\ input.doc.root.kids[k].item \in libraryItems(files[1].templates)
           /\ carriesText(input.doc.root.kids[k]) =>
                \A rec \in libraryRecords(files[1].templates,
                                          input.doc.root.kids[k].item) :
                  madeFrom(rec, input.doc.root.kids[lastLike(input.doc, k)].kids[1].text)
    /\ libraryItems(files[1].templates)
         = {input.doc.root.kids[k].item : k \in templateNodes(input.doc)} \ {""}
    /\ \A i \in 1 .. Len(files[1].screens) :
         heap[files[1].screens[i]].type \notin templateTags

\* The values the documented defaults give a node whose only field is f: a
\* part of f that is a numeral keeps its number, everything else is the
\* default.
isField(f, tag) == f # NoElement /\ f.tag = tag
defaultLocation(f) ==
  [kind |-> "point", x |-> 0, y |-> IF isField(f, "Location") THEN 4 ELSE 0]
defaultSize(f) ==
  [kind |-> "size", cx |-> IF isField(f, "Size") THEN 5 ELSE 0, cy |-> 0]

styleFlagNames == DOMAIN parseStyleFlags(Leaf("Screen", "")) \ {"kind"}

\* The node at a has the documented default in every field (a colour whose
\* channels fall back counts as no override).
hasDefaults(h, a, f) ==
  /\ h[h[a].location] = defaultLocation(f)
  /\ h[h[a].size] = defaultSize(f)
  /\ h[a].topAnchorOffset = 0 /\ h[a].bottomAnchorOffset = 0
  /\ h[a].leftAnchorOffset = 0 /\ h[a].rightAnchorOffset = 0
  /\ h[a].font = 0
  /\ h[a].topAnchorToTop /\ h[a].leftAnchorToLeft
  /\ ~h[a].bottomAnchorToTop /\ ~h[a].rightAnchorToLeft
  /\ \A s \in styleFlagNames : ~h[h[a].style][s]
  /\ h[a].textColor = 0
       \/ h[h[a].textColor] = rgbCell(<<255, 255, 255, 255>>)

\* The field of the window and the field of its nested Button.
windowField(doc) ==
  IF Len(doc.root.kids[1].kids) = 3 THEN doc.root.kids[1].kids[2] ELSE NoElement
nestedField(doc) ==
  IF Len(doc.root.kids[1].kids[Len(doc.root.kids[1].kids)].kids) = 2
    THEN doc.root.kids[1].kids[Len(doc.root.kids[1].kids)].kids[2]
    ELSE NoElement

\* C20: a missing or unparsable field does not fail the document and does not
\* remove its node: the window and its nested Button are both produced, and
\* each of their fields has its documented default (geometry and offsets 0,
\* font 0, top and left anchors true, bottom and right anchors false, style
\* flags false, no colour override).
C20_FieldsFallBackToDefaults ==
  (pc = "parsed" /\ input.doc \in FieldDocs) =>
    /\ files[1].errors = <<>>
    /\ Len(files[1].screens) = 1
    /\ heap[files[1].screens[1]].screenId = "Win"
    /\ Len(heap[heap[files[1].screens[1]].children].elems) = 1
    /\ heap[heap[heap[files[1].screens[1]].children].elems[1]].screenId = "Btn"
    /\ hasDefaults(heap, files[1].screens[1], windowField(input.doc))
    /\ hasDefaults(heap, heap[heap[files[1].screens[1]].children].elems[1],
                   nestedField(input.doc))

(***************************************************************************)
(* The serializer's output against the tree it was given.                  *)
(***************************************************************************)
\* The elements directly under e that stand for nodes, in output order.
nodeKids(e) == SelectSeq(e.kids, LAMBDA k : "ScreenID" \in tagsOf(k))

\* The element e stands for the node at a: same tag as the node's type, and
\* one element per child, in the order of the children list.
RECURSIVE mirrors(_, _, _)
mirrors(e, h, a) ==
  /\ e.tag = h[a].type
  /\ Len(nodeKids(e)) = Len(kidsOf(h, a))
  /\ \A k \in 1 .. Len(kidsOf(h, a)) : mirrors(nodeKids(e)[k], h, kidsOf(h, a)[k])

\* C21: the output has one element per root node and one per nested node,
\* depth-first in tree order, and the tag of each is the node's type, also
\* for a root node that is not a window.
C21_OneElementPerNode ==
  pc \in {"serialized", "exported"} =>
    /\ Len(out.kids) = Len(files[1].screens)
    /\ \A k \in 1 .. Len(files[1].screens) :
         mirrors(out.kids[k], heap, files[1].screens[k])

AnchorTags ==
  {"TopAnchorToTop", "BottomAnchorToTop", "LeftAnchorToLeft",
   "RightAnchorToLeft", "TopOffset", "BottomOffset", "LeftOffset",
   "RightOffset"}

\* The anchor tags of a node whose values diverge from the defaults.
divergingAnchors(p) ==
  {t \in AnchorTags :
     \/ t = "TopAnchorToTop" /\ ~p.topAnchorToTop
     \/ t = "BottomAnchorToTop" /\ p.bottomAnchorToTop
     \/ t = "LeftAnchorToLeft" /\ ~p.leftAnchorToLeft
     \/ t = "RightAnchorToLeft" /\ p.rightAnchorToLeft
     \/ t = "TopOffset" /\ p.topAnchorOffset # 0
     \/ t = "BottomOffset" /\ p.bottomAnchorOffset # 0
     \/ t = "LeftOffset" /\ p.leftAnchorOffset # 0
     \/ t = "RightOffset" /\ p.rightAnchorOffset # 0}

\* The element e of the node at a, and the elements of the nodes below it,
\* carry exactly the diverging anchor tags.
RECURSIVE anchorsWritten(_, _, _)
anchorsWritten(e, h, a) ==
  /\ tagsOf(e) \cap AnchorTags = divergingAnchors(h[a])
  /\ \A k \in 1 .. Len(kidsOf(h, a)) :
       anchorsWritten(nodeKids(e)[k], h, kidsOf(h, a)[k])

\* C22: for every node of the tree, root or nested, the output has an anchor
\* boolean tag exactly when the value diverges from the default (top and left
\* true, bottom and right false) and an anchor offset tag exactly when the
\* offset is not zero.
C22_AnchorsWrittenWhenDiverging ==
  pc \in {"serialized", "exported"} =>
    \A k \in 1 .. Len(files[1].screens) :
      anchorsWritten(out.kids[k], heap, files[1].screens[k])

\* The document without its include list.
withoutComposite(doc) ==
  [doc EXCEPT !.root.kids = SelectSeq(@, LAMBDA k : k.tag # "Composite")]

definitionsOf(doc) == parsedFile("EQUI_A.xml", parseEquiFile(withoutComposite(doc), <<>>, 0))

\* C23: a document that holds an include list together with a window, a
\* control or a template definition has those definitions parsed into its
\* root list, template library and item registry, as they are parsed from
\* the document without the include list.
C23_DefinitionsBesideIncludes ==
  (pc = "parsed" /\ input.doc \in MixedDocs) =>
    /\ files[1].screens = definitionsOf(input.doc).screens
    /\ files[1].templates = definitionsOf(input.doc).templates
    /\ files[1].itemRegistry = definitionsOf(input.doc).itemRegistry
    /\ \/ files[1].screens # <<>>
       \/ files[1].templates # createTemplateLibrary

(***************************************************************************)
(* The trees after resolvePiecesReferences.                                *)
(***************************************************************************)
\* Every node below a names the node above it as its parent.
RECURSIVE parentsAgree(_, _)
parentsAgree(h, a) ==
  \A k \in 1 .. Len(kidsOf(h, a)) :
    /\ h[kidsOf(h, a)[k]].parentId = h[a].id
    /\ parentsAgree(h, kidsOf(h, a)[k])

rootsOf(fs) == UNION {{fs[i].screens[k] : k \in 1 .. Len(fs[i].screens)} :
                      i \in 1 .. Len(fs)}

\* C24: after resolvePiecesReferences every node reachable in a document's
\* tree has the id of the node whose children list holds it as its parentId,
\* and a root node has none: for the nodes attached at parse time, for each
\* attached clone and for every descendant of an attached clone.
C24_ParentIdsAgree ==
  pc = "resolved" =>
    \A a \in rootsOf(files) : heap[a].parentId = NoId /\ parentsAgree(heap, a)

\* The names that the node at s lists itself and that some document defines.
ownKnownNames(s) ==
  IF \E e \in pendingEntries : e.id = parsedHeap[s].id
    THEN knownNames(CHOOSE e \in pendingEntries : e.id = parsedHeap[s].id)
    ELSE <<>>

\* The clone at c of the node at s has, after the copies of the parse-time
\* children of s, one copy per name that s lists.
carriesOwnReferences(c, s) ==
  /\ Len(kidsOf(heap, c)) = Len(kidsOf(parsedHeap, s)) + Len(ownKnownNames(s))
  /\ \A j \in 1 .. Len(ownKnownNames(s)) :
       heap[kidsOf(heap, c)[Len(kidsOf(parsedHeap, s)) + j]].screenId
         = parsedHeap[sourceOf(ownKnownNames(s)[j])].screenId

\* C25: when a referenced fragment has pending references of its own, the
\* clone attached under the referencing node contains clones of the
\* fragment's referenced children, for every order of the documents and of
\* the elements inside them.
C25_ClonesCarryNestedReferences ==
  pc = "resolved" =>
    \A e \in pendingEntries :
      /\ Len(addedKids(e)) = Len(knownNames(e))
      /\ \A k \in 1 .. Len(addedKids(e)) :
           carriesOwnReferences(addedKids(e)[k], sourceOf(knownNames(e)[k]))

\* C26: resolvePiecesReferences run a second time on documents that are
\* already resolved attaches no further clone and leaves every tree as it
\* was.
C26_ResolveTwiceChangesNothing ==
  pc = "resolvedAgain" =>
    /\ Len(heap) = Len(prev[2])
    /\ \A a \in rootsOf(files) :
         /\ Len(kidsOf(heap, a)) = Len(kidsOf(prev[2], a))
         /\ treeValue(heap, a) = treeValue(prev[2], a)

\* A true-colour header (type 2 or 10) whose depth the decoder has no branch
\* for.
uninterpretable(head) ==
  head.imageType \in {2, 10} /\ head.bitsPerPixel \notin {24, 32}

\* C27: a header with a supported type code and a bits-per-pixel value the
\* decoder cannot interpret (type 2 or 10, depth other than 24 or 32) gives
\* an error: decodeTgaCustom returns no buffer whose pixels were not
\* assigned from the pixel data of the input.
C27_UninterpretableDepthFails ==
  (pc = "decoded" /\ uninterpretable(input.head)) => ~out.ok

\* The result is a buffer of width * height pixels of four bytes each.
fullBuffer(f, r) ==
  /\ r.ok
  /\ r.width = f.head.width /\ r.height = f.head.height
  /\ Len(r.data) = pixelCount(f)
  /\ \A i \in 1 .. Len(r.data) :
       Len(r.data[i]) = 4 /\ \A c \in 1 .. 4 : r.data[i][c] \in 0 .. 255

\* C28: for an input of at least 18 bytes with non-zero width and height and
\* a supported type code decodeTgaCustom terminates and returns a buffer of
\* width * height * 4 bytes, also when the pixel stream is cut short or
\* empty: every RLE packet, run or raw, adds at least one pixel, and a read
\* past the end of the input neither loops nor fails.
C28_DecodeTerminates ==
  /\ <>(pc = "decoded")
  /\ [](pc = "decoded" => fullBuffer(input, out))
  /\ [][pc = "rle" /\ pc' = "rle" => Len(out'.pixels) > Len(out.pixels)]_vars

\* A cut RLE file whose last packets were read past the end of the data.
C28_Witness ==
  /\ pc = "decoded"
  /\ input.head.imageType = 10 /\ input.head.bitsPerPixel = 24
  /\ input.variant = "cut" /\ input.leads = <<0>>
  /\ input.head.width = 2
  /\ Len(input.bytes) >= 18
  /\ out.off8 > 8 * Len(input.bytes)
  /\ fullBuffer(input, out)

(***************************************************************************)
(* C29: concurrent loadFromFile calls for one texture name.                *)
(***************************************************************************)
\* The calls that were handed promise p.
callersOf(T, p) == {c \in 1 .. Len(T.callers) : T.callers[c].promise = p}

\* The call that created promise p: the first one that holds it.
starterOf(T, p) ==
  CHOOSE c \in callersOf(T, p) : \A d \in callersOf(T, p) : c <= d

\* The decodes started for a texture name.
decodesOf(T, name) ==
  {p \in 1 .. Len(T.promises) : textureName(T.promises[p].source) = name}

TextureNames == {textureName(f) : f \in TextureFiles}

\* C29: for one texture name at most one decode is in flight, and a second
\* decode is started only after the first was rejected; the loading marker
\* of a name is present exactly while the call that started the decode has
\* not continued past its await; every call that was handed a decode ends
\* with that decode's outcome, the same texture or the same failure for
\* all of them; a call served from the cache has started no decode and
\* holds a texture; and only decoded textures are cached, so after a
\* failure nothing is cached and the marker is gone.
C29_OneDecodePerLoad ==
  /\ \A name \in TextureNames :
       \A p, q \in decodesOf(tex, name) :
         p < q => /\ tex.promises[p].state = "rejected"
                  /\ tex.callers[starterOf(tex, p)].at = "done"
  /\ \A p \in 1 .. Len(tex.promises) :
       /\ callersOf(tex, p) # {}
       /\ (tex.callers[starterOf(tex, p)].at = "awaiting")
            <=> (/\ textureName(tex.promises[p].source) \in DOMAIN tex.loading
                 /\ tex.loading[textureName(tex.promises[p].source)] = p)
       /\ \A c \in callersOf(tex, p) :
            /\ c # starterOf(tex, p) => tex.callers[c].at # "awaiting"
            /\ tex.callers[c].at = "done"
                 => /\ tex.promises[p].state # "pending"
                    /\ tex.callers[c].result = tex.promises[p]
       /\ (/\ tex.promises[p].state = "fulfilled"
           /\ tex.callers[starterOf(tex, p)].at = "done")
            => /\ textureName(tex.promises[p].source) \in DOMAIN tex.textures
               /\ tex.textures[textureName(tex.promises[p].source)]
                    = tex.promises[p]
  /\ \A c \in 1 .. Len(tex.callers) :
       tex.callers[c].promise = 0
         => /\ tex.callers[c].at = "done"
            /\ tex.callers[c].result.state = "fulfilled"
            /\ \E p \in decodesOf(tex, textureName(tex.callers[c].filename)) :
                 tex.callers[c].result = tex.promises[p]
  /\ \A name \in DOMAIN tex.loading : tex.loading[name] \in 1 .. Len(tex.promises)
  /\ \A name \in DOMAIN tex.textures :
       /\ tex.textures[name].state = "fulfilled"
       /\ \E p \in decodesOf(tex, name) : tex.textures[name] = tex.promises[p]

\* Three calls for the name a: the first started a decode that failed, the
\* second was handed the same decode and ended with the same failure, the
\* marker is gone and nothing is cached, and the third call has started a
\* second decode.
C29_Witness ==
  /\ Len(tex.callers) = 3
  /\ Len(tex.promises) = 2
  /\ tex.promises[1].state = "rejected"
  /\ tex.callers[1].promise = 1
  /\ tex.callers[2].promise = 1
  /\ tex.callers[1].at = "done"
  /\ tex.callers[2].at = "done"
  /\ tex.callers[2].result = tex.callers[1].result
  /\ tex.callers[3].promise = 2
  /\ tex.callers[3].at = "awaiting"
  /\ tex.loading = MapSet(EmptyMap, "a", 2)
  /\ tex.textures = EmptyMap

(***************************************************************************)
(* C30: clear() and remove(name) against loads in flight.                  *)
(***************************************************************************)
\* C30: while clear() is the last thing that ran and no loadFromFile call
\* has been made since, the cache holds no texture; while remove(name) is,
\* the cache holds no texture of that name.  A load that was in flight
\* when they ran does not insert its texture afterwards.
C30_ClearedStaysCleared ==
  /\ (prev # <<>> /\ prev[1].op = "clear") => tex.textures = EmptyMap
  /\ (prev # <<>> /\ prev[1].op = "remove")
       => prev[1].name \notin DOMAIN tex.textures
=============================================================================
